---- MODULE Spec2Model ----
(***************************************************************************)
(* Model of the JMicron mailbox transport of jm-raid-status:               *)
(*   src/src/jm_protocol.c   device handle, wakeup, command exchange,      *)
(*                           cleanup and the signal handler                *)
(*   src/src/jm_commands.c   command counter, probe commands, disk sweep   *)
(*   src/src/jmraidstatus.c  main program                                  *)
(* One process.  Its main thread is at `pc`; signal handlers run on top of *)
(* it as a stack of handler frames (`hstack`): while the stack is not      *)
(* empty only its top frame takes steps.                                   *)
(*                                                                         *)
(* Two programs drive the library: prog = "main" is jmraidstatus.c's main; *)
(* prog = "lib" is a caller of the jm_protocol.h / jm_commands.h API in    *)
(* the style of src/tests and src/scripts (init, wakeup, commands,         *)
(* cleanup), which does not register the signal handlers unless it asks to.*)
(***************************************************************************)
EXTENDS Integers, Sequences, FiniteSets, TLC

VARIABLES
    prog,             \* "main" | "lib"
    pc,               \* control point of the main thread
    sector,           \* options.sector (main) / the sector the caller passes (lib)
    disk_number,      \* options.disk_number: -1 = all disks
    fd,               \* the handle the caller holds, -1 before jm_init_device
    openFds,          \* descriptors currently open in the process
    backup_sector,    \* main's 512-byte pre-run read buffer, <<>> before the read
    g_cleanup_fd,     \* jm_protocol.c:35
    g_cleanup_sector, \* jm_protocol.c:36
    g_cleanup_done,   \* jm_protocol.c:37
    disp,             \* disposition of each signal: "dfl" | "handler"
    hstack,           \* running signal handler frames, innermost last
    cmd_counter,      \* jm_commands.c:18
    ctx,              \* g_runtime_context: NoCtx or the context's sector
    cmd_ctr,          \* word 1 of the command frame being exchanged
    i,                \* loop variable of jm_send_wakeup / of the disk sweep
    k,                \* position in SigOrder while installing / removing handlers
    phase,            \* which command is in progress
    disks_found,      \* jm_get_all_disks_smart_data: disks_found
    result,           \* return value of the last library call
    rc,               \* the value main returns once cleanup is over
    exitCode,         \* -1 while the process runs
    exitHow,          \* "running" | "return" | "_exit" | "killed"
    exitAt,           \* which return statement of main ended the process
    \* ---- history of what was issued to the device (observation only)
    lastWrite,        \* kind of the last WRITE issued: none|wakeup|cmd|zero
    lastCtr,          \* counter of the last command frame transmitted in this session, 0 = none
    readsSince,       \* READs issued since the last command WRITE, -1 = no command WRITE yet
    xchg,             \* how far the last command exchange got
    lbas,             \* LBAs that SG_IO requests of this session addressed
    nZeroMain,        \* zero-sector WRITEs issued by jm_cleanup_device in this session
    nZeroHandler,     \* zero-sector WRITEs issued by jm_signal_handler in this session
    nClose,           \* close() calls jm_cleanup_device made in this session
    cleanupCalls,     \* calls of jm_cleanup_device begun in this session
    registered,       \* jm_setup_signal_handlers has returned in this session
    sigSeen,          \* signals delivered so far
    firstSig,         \* the first signal delivered, 0 = none
    sigAt,            \* where the first signal found the main thread:
                      \* none | outside | window | between
    cmdAfterSig,      \* a command frame was written after a signal had been delivered
    sessions,         \* sessions opened so far (jm_init_device successes)
    wakeSeq,          \* word 1 of the wakeup frames the running / last jm_send_wakeup
                      \* call wrote successfully, in order
    \* ---- the frame buffers of one command exchange (SpecFrame)
    cmd_buf,          \* execute_probe_command's cmd_buf, a sequence of 32-bit words
    media,            \* content of the mailbox sector on the device
    resp_buf,         \* the caller's response buffer
    plain,            \* the command frame as built, before CRC and scrambling
    prevResult,       \* result of the previous exchange of the session
    tampered,         \* the response left on the device is not a well-formed frame
    \* ---- jm_get_all_disks_smart_data (SpecSweep)
    expected_array_size, \* ctx->expected_array_size, 0 = not given
    disk_data,        \* the disk records data[0..4] (main's disk_data)
    disk_bitmask,     \* jm_commands.c:357
    bitmask_captured, \* jm_commands.c:358
    is_degraded,      \* *is_degraded
    present_disks,    \* *present_disks, Unset until the function writes it
    num_disks,        \* *num_disks
    identify_result,  \* jm_commands.c:396, Unset outside the loop body
    bitmask_temp,     \* jm_commands.c:380
    values_page,      \* jm_get_disk_smart_data's values, by kind; "none" = not read
    cmdLog,           \* the commands the sweep issued so far, in order:
                      \* <<kind, slot, return value of the command function>>
    firstMask,        \* byte 0x1F0 of the first IDENTIFY response of the sweep
                      \* that passed the CRC check, Unset = none yet
    moreThanExpected, \* the branch of jm_commands.c:468 was taken
    \* ---- the parser and the health engine (SpecHealth)
    config,           \* g_smart_config: NoConfig or the configuration
    smart_values,     \* the SMART values page: its attribute entries, in order
    smart_thresholds, \* the SMART thresholds page: its entries, in order
    record,           \* the disk_smart_data_t that smart_combine_data fills
    overall,          \* assess_overall_health: overall
    copied,           \* the offsets of response[] that smart_parse_* reads
    response,         \* jm_get_disk_identify: response[], by field
    identity,         \* the model, serial and firmware strings it returns
    json_status,      \* format_json: what it prints as overall_status
    report,           \* the aggregator: the disk it parsed and its counters
    buffer,           \* config_load: the text of the file
    loaded            \* config_load: what it returns and the configuration

vars == <<prog, pc, sector, disk_number, fd, openFds, backup_sector,
          g_cleanup_fd, g_cleanup_sector, g_cleanup_done, disp, hstack,
          cmd_counter, ctx, cmd_ctr, i, k, phase, disks_found, result, rc,
          exitCode, exitHow, exitAt,
          lastWrite, lastCtr, readsSince, xchg, lbas, nZeroMain,
          nZeroHandler, nClose, cleanupCalls, registered, sigSeen, firstSig,
          sigAt, cmdAfterSig, sessions, wakeSeq,
          cmd_buf, media, resp_buf, plain, prevResult, tampered,
          expected_array_size, disk_data, disk_bitmask, bitmask_captured, is_degraded,
          present_disks, num_disks, identify_result, bitmask_temp, values_page,
          cmdLog, firstMask, moreThanExpected,
          config, smart_values, smart_thresholds, record, overall,
          copied, response, identity, json_status, report, buffer, loaded>>

\* groups for UNCHANGED
opts    == <<sector, disk_number>>
handle  == <<fd, openFds>>
globals == <<g_cleanup_fd, g_cleanup_sector, g_cleanup_done>>
sigs    == <<disp, hstack>>
sigHist == <<sigSeen, firstSig, sigAt>>
cmdVars == <<cmd_counter, cmd_ctr, phase, disks_found>>
exits   == <<exitCode, exitHow, exitAt>>
ioHist  == <<lastWrite, lastCtr, readsSince, xchg, lbas, cmdAfterSig>>
clHist  == <<nZeroMain, nZeroHandler, nClose, cleanupCalls>>
frameVars == <<cmd_buf, media, resp_buf, plain, prevResult, tampered>>
unitVars == <<config, smart_values, smart_thresholds, record, overall,
              copied, response, identity, json_status, report, buffer, loaded>>
sweepVars == <<expected_array_size, disk_data, disk_bitmask, bitmask_captured,
               is_degraded, present_disks, num_disks, identify_result,
               bitmask_temp, values_page, cmdLog, firstMask, moreThanExpected,
               unitVars>>

----------------------------------------------------------------------------
\* Bounds of the model

MaxSignals == 2      \* signals delivered in one run
MaxSessions == 2     \* sessions the library caller opens in one process
MaxLibCmds == 2      \* commands the library caller issues in one process
SectorLen == 2       \* bytes of the pre-run read buffer that are modelled
MaxCleanupCalls == 2 \* jm_cleanup_device calls the library caller makes per session

----------------------------------------------------------------------------
\* Program constants

SIGHUP == 1
SIGINT == 2
SIGQUIT == 3
SIGTERM == 15
NumSlots == 5
NumWakeup == 4
LegacySector == 33
FirstSafeSector == 64
FirstPartitionSector == 2048

Signals == {SIGINT, SIGTERM, SIGHUP, SIGQUIT}
\* the order of the sigaction / signal calls, jm_protocol.c:100-103 and 110-113
SigOrder == <<SIGINT, SIGTERM, SIGHUP, SIGQUIT>>

NoCtx == -1
\* --sector values tried where signals interleave: the default of the tests and
\* its unsafe neighbour, and the first sector past the safe range
SectorInputs == {32, LegacySector, FirstPartitionSector}
\* --sector values tried without signals: both sides of every boundary
AllSectorInputs == {0, 32, 33, 34, 63, 64, 1024, 2047, 2048, 65535}
DiskInputs == {-1, 0}
Bytes == {0, 1}
\* the sector the library caller passes (0x21 in src/tests) and the sectors it
\* may put into the runtime context
LibSector == LegacySector
CtxSectors == {LibSector}

----------------------------------------------------------------------------
\* Pure helpers

\* is_sector_in_safe_range with the upper limit off by one
is_sector_in_safe_range_off_by_one(s) ==
    IF s = LegacySector THEN TRUE
    ELSE IF s < FirstSafeSector THEN FALSE
    ELSE IF s > FirstPartitionSector THEN FALSE
    ELSE TRUE

\* jmraidstatus.c:140-162
is_sector_in_safe_range(s) ==
    IF s = LegacySector THEN TRUE
    ELSE IF s < FirstSafeSector THEN FALSE
    ELSE IF s >= FirstPartitionSector THEN FALSE
    ELSE TRUE

\* is_sector_empty that looks at the first byte only
is_sector_empty_first_byte(data) == Len(data) = 0 \/ data[1] = 0

\* jmraidstatus.c:129-137
is_sector_empty(data) == \A j \in 1..Len(data) : data[j] = 0

\* open(2) returns the lowest descriptor that is free; 0..2 are the standard streams
NewFd == CHOOSE n \in 3..(3 + MaxSessions) :
            /\ n \notin openFds
            /\ \A m \in 3..(n - 1) : m \in openFds

Running == exitHow = "running"
MainRuns == Running /\ hstack = <<>> /\ pc # "exited"

\* how the command functions are chained: jm_get_all_disks_smart_data (sweep),
\* jm_get_disk_smart_data (single) or one command function called on its own (call)
Mode == IF prog = "lib" THEN "call"
        ELSE IF disk_number >= 0 THEN "single" ELSE "sweep"

\* the sector the command functions address: main passes options.sector
\* (jmraidstatus.c:686, 711); the jm_commands.c functions read ctx->sector
CmdSector == IF prog = "main" THEN sector ELSE ctx

\* the handlers are registered and jm_cleanup_device has not completed
InWindow == registered

\* the main thread is between two commands of an awake session
BetweenCommands ==
    /\ registered
    /\ hstack = <<>>
    /\ xchg # "none"
    /\ pc \in {"cmd_build", "lib_awake"}

\* main's return statement
Return(code, site) ==
    /\ pc' = "exited"
    /\ exitCode' = code
    /\ exitHow' = "return"
    /\ exitAt' = site

\* _exit(code) in the signal handler
HandlerExit(code) ==
    /\ exitCode' = code
    /\ exitHow' = "_exit"
    /\ exitAt' = "signal"

\* the slots of the enclosure, jm_commands.c:375
Slots == 0..(NumSlots - 1)

\* an out-parameter the callee has not written
Unset == -1
\* identify_result before jm_get_disk_identify was called in the iteration
NoResult == 1

\* no configuration is set: g_smart_config is NULL (smart_parser.c:14)
NoConfig ==
    [null |-> TRUE, attributes |-> <<>>, has_temp_critical |-> 0, temp_critical |-> 0,
     use_manufacturer_thresholds |-> 0]

\* the parser has not been called
UnitIdle ==
    /\ config = NoConfig
    /\ smart_values = <<>>
    /\ smart_thresholds = <<>>
    /\ record = <<>>
    /\ overall = "none"
    /\ copied = <<>>
    /\ response = <<>>
    /\ identity = <<>>
    /\ json_status = "none"
    /\ report = <<>>
    /\ buffer = <<>>
    /\ loaded = <<>>

\* jm_commands.c:387-389: memset(&data[i], 0, ..), is_present = 0
EmptyRecord == [is_present |-> 0, overall_status |-> "PASSED", num_attributes |-> 0]

\* no command exchange is in progress: the frame buffers hold nothing of interest
FrameIdle ==
    /\ cmd_buf = <<>>
    /\ media = <<>>
    /\ resp_buf = <<>>
    /\ plain = <<>>
    /\ prevResult = "none"
    /\ tampered = FALSE

\* jm_get_all_disks_smart_data has not been entered
SweepIdle ==
    /\ expected_array_size = 0
    /\ disk_data = [s \in Slots |-> EmptyRecord]
    /\ disk_bitmask = 0
    /\ bitmask_captured = 0
    /\ is_degraded = 0
    /\ present_disks = Unset
    /\ num_disks = Unset
    /\ identify_result = NoResult
    /\ bitmask_temp = 0
    /\ values_page = "none"
    /\ cmdLog = <<>>
    /\ firstMask = Unset
    /\ moreThanExpected = FALSE
    /\ UnitIdle

----------------------------------------------------------------------------
Init ==
    /\ prog \in {"main", "lib"}
    /\ pc = IF prog = "main" THEN "start" ELSE "lib"
    /\ sector = 0
    /\ disk_number = -1
    /\ fd = -1
    /\ openFds = {}
    /\ backup_sector = <<>>
    /\ g_cleanup_fd = -1
    /\ g_cleanup_sector = 0
    /\ g_cleanup_done = 0
    /\ disp = [s \in Signals |-> "dfl"]
    /\ hstack = <<>>
    /\ cmd_counter = 1
    /\ ctx = NoCtx
    /\ cmd_ctr = 0
    /\ i = 0
    /\ k = 0
    /\ phase = "none"
    /\ disks_found = 0
    /\ result = "none"
    /\ rc = [code |-> 0, site |-> "none"]
    /\ exitCode = -1
    /\ exitHow = "running"
    /\ exitAt = "none"
    /\ lastWrite = "none"
    /\ lastCtr = 0
    /\ readsSince = -1
    /\ xchg = "none"
    /\ lbas = {}
    /\ nZeroMain = 0
    /\ nZeroHandler = 0
    /\ nClose = 0
    /\ cleanupCalls = 0
    /\ registered = FALSE
    /\ sigSeen = 0
    /\ firstSig = 0
    /\ sigAt = "none"
    /\ cmdAfterSig = FALSE
    /\ sessions = 0
    /\ wakeSeq = <<>>
    /\ FrameIdle
    /\ SweepIdle

----------------------------------------------------------------------------
\* main, up to the open of the device

\* jmraidstatus.c:516-539: parse_arguments, then the safe-range check, for a
\* --sector value drawn from S
MainStartWith(S) ==
    /\ MainRuns /\ prog = "main" /\ pc = "start"
    /\ \E s \in S, d \in DiskInputs, argsOk \in BOOLEAN :
          /\ sector' = s
          /\ disk_number' = d
          /\ IF ~argsOk THEN Return(3, "parse")
             ELSE IF ~is_sector_in_safe_range(s) THEN Return(3, "range")
             ELSE pc' = "detect" /\ UNCHANGED exits
    /\ UNCHANGED <<prog, handle, backup_sector, globals, sigs, cmdVars, ctx, i, k,
                   result, rc, ioHist, clHist, registered, sigHist, sessions,
                   wakeSeq, frameVars, sweepVars>>

MainStart == MainStartWith(SectorInputs)
MainStartAny == MainStartWith(AllSectorInputs)

\* jmraidstatus.c:547-589: hardware detection unless --force
MainDetect ==
    /\ MainRuns /\ prog = "main" /\ pc = "detect"
    /\ \E force \in BOOLEAN, detected \in BOOLEAN :
          IF ~force /\ ~detected THEN Return(3, "detect")
          ELSE pc' = "init" /\ UNCHANGED exits
    /\ UNCHANGED <<prog, opts, handle, backup_sector, globals, sigs, cmdVars, ctx, i,
                   k, result, rc, ioHist, clHist, registered, sigHist, sessions,
                   wakeSeq, frameVars, sweepVars>>

\* jm_protocol.c:137-172, and main's handling of its result, jmraidstatus.c:606-622
jm_init_device ==
    /\ MainRuns /\ pc = "init"
    /\ \E outcome \in {"SUCCESS", "DEVICE_OPEN", "NOT_SG_DEVICE"} :
          /\ result' = outcome
          /\ IF outcome = "SUCCESS"
             THEN /\ fd' = NewFd
                  /\ openFds' = openFds \cup {NewFd}
                  /\ sessions' = sessions + 1
                  /\ pc' = IF prog = "main" THEN "preread" ELSE "lib_open"
                  /\ UNCHANGED exits
                  \* a new session: nothing has been issued to the device in it
                  /\ lastWrite' = "none" /\ lastCtr' = 0 /\ readsSince' = -1
                  /\ xchg' = "none" /\ lbas' = {}
                  /\ nZeroMain' = 0 /\ nZeroHandler' = 0 /\ nClose' = 0
                  /\ cleanupCalls' = 0
                  /\ wakeSeq' = <<>>
             ELSE /\ UNCHANGED <<handle, sessions, lastWrite, lastCtr, readsSince, xchg,
                                 lbas, clHist, wakeSeq>>
                  /\ IF prog = "main" THEN Return(3, "init")
                     ELSE pc' = "lib" /\ UNCHANGED exits
    /\ UNCHANGED <<prog, opts, backup_sector, globals, sigs, cmdVars, ctx, i, k, rc,
                   cmdAfterSig, registered, sigHist, frameVars, sweepVars>>

\* The pre-run read of the mailbox sector into backup_sector.  main calls a
\* four-argument jm_init_device that fills the buffer; that variant is not among
\* the sources, so the read is modelled from the specification: it yields the 512
\* bytes stored at the sector and issues no write.
PreRunRead ==
    /\ MainRuns /\ prog = "main" /\ pc = "preread"
    /\ \E data \in [1..SectorLen -> Bytes] : backup_sector' = data
    /\ pc' = "check"
    /\ UNCHANGED <<prog, opts, handle, globals, sigs, cmdVars, ctx, i, k, result, rc,
                   exits, ioHist, clHist, registered, sigHist, sessions,
                   wakeSeq, frameVars, sweepVars>>

\* jmraidstatus.c:624-649
MainCheckEmpty ==
    /\ MainRuns /\ prog = "main" /\ pc = "check"
    /\ IF is_sector_empty(backup_sector)
       THEN pc' = "setup" /\ UNCHANGED <<openFds, exits>>
       ELSE openFds' = openFds \ {fd} /\ Return(3, "unsafe")
    /\ UNCHANGED <<prog, opts, fd, backup_sector, globals, sigs, cmdVars, ctx, i, k,
                   result, rc, ioHist, clHist, registered, sigHist, sessions,
                   wakeSeq, frameVars, sweepVars>>

----------------------------------------------------------------------------
\* jm_setup_signal_handlers

\* jm_setup_signal_handlers that does not store the sector for the handler
jm_setup_signal_handlers_no_sector ==
    /\ MainRuns /\ pc = "setup"
    /\ g_cleanup_fd' = fd
    /\ g_cleanup_done' = 0
    /\ k' = 1
    /\ pc' = "sigaction"
    /\ UNCHANGED <<prog, opts, handle, backup_sector, g_cleanup_sector, sigs, cmdVars,
                   ctx, i, result, rc, exits, ioHist, clHist, registered, sigHist,
                   sessions, wakeSeq, frameVars, sweepVars>>

\* jm_protocol.c:87-97: sa is filled in, the three globals are stored
jm_setup_signal_handlers ==
    /\ MainRuns /\ pc = "setup"
    /\ g_cleanup_fd' = fd
    /\ g_cleanup_sector' = sector
    /\ g_cleanup_done' = 0
    /\ k' = 1
    /\ pc' = "sigaction"
    /\ UNCHANGED <<prog, opts, handle, backup_sector, sigs, cmdVars, ctx, i, result,
                   rc, exits, ioHist, clHist, registered, sigHist, sessions,
                   wakeSeq, frameVars, sweepVars>>

\* jm_protocol.c:99-104: one sigaction call; after the fourth the function
\* returns, to main at jmraidstatus.c:652-665 or to the library caller
InstallHandler ==
    /\ MainRuns /\ pc = "sigaction"
    /\ disp' = [disp EXCEPT ![SigOrder[k]] = "handler"]
    /\ IF k < Len(SigOrder)
       THEN k' = k + 1 /\ UNCHANGED <<pc, registered, i>>
       ELSE /\ k' = 0
            /\ registered' = TRUE
            /\ IF prog = "main" THEN pc' = "wakeup" /\ i' = 0
               ELSE pc' = "lib_open" /\ UNCHANGED i
    /\ UNCHANGED <<prog, opts, handle, backup_sector, globals, hstack, cmdVars, ctx,
                   result, rc, exits, ioHist, clHist, sigHist, sessions,
                   wakeSeq, frameVars, sweepVars>>

----------------------------------------------------------------------------
\* jm_send_wakeup

\* jm_send_wakeup that sends the third frame before the second
wakeup_values_swapped ==
    << <<\H3c75, \Ha80b>>, <<\H6897, \H05f3>>, <<\H0388, \He337>>,
       <<\He00c, \H523a>> >>

\* jm_protocol.c:254: word 1 of the four wakeup frames, each 32-bit word written
\* as <<high half, low half>>
wakeup_values ==
    << <<\H3c75, \Ha80b>>, <<\H0388, \He337>>, <<\H6897, \H05f3>>,
       <<\He00c, \H523a>> >>

\* jm_protocol.c:267-290: one pass of the loop, the WRITE of wakeup frame i; the
\* function returns on the first failure or after the fourth frame.  main's
\* handling of the result is jmraidstatus.c:665-675.
jm_send_wakeup ==
    /\ MainRuns /\ pc = "wakeup" /\ i < NumWakeup
    /\ lastWrite' = "wakeup"
    /\ lbas' = lbas \cup {sector}
    /\ \E ok \in BOOLEAN :
          IF ~ok
          THEN /\ result' = "IOCTL_FAILED"
               /\ UNCHANGED <<i, wakeSeq>>
               /\ IF prog = "main"
                  THEN pc' = "cl_entry" /\ rc' = [code |-> 3, site |-> "wakeup"]
                  ELSE pc' = "lib_open" /\ UNCHANGED rc
          ELSE /\ i' = i + 1
               /\ wakeSeq' = Append(wakeSeq, wakeup_values[i + 1])
               /\ UNCHANGED rc
               /\ IF i + 1 < NumWakeup
                  THEN UNCHANGED <<pc, result>>
                  ELSE /\ result' = "SUCCESS"
                       /\ pc' = IF prog = "main" THEN "query" ELSE "lib_awake"
    /\ UNCHANGED <<prog, opts, handle, backup_sector, globals, sigs, cmdVars, ctx, k,
                   exits, lastCtr, readsSince, xchg, cmdAfterSig, clHist, registered,
                   sigHist, sessions, frameVars, sweepVars>>

----------------------------------------------------------------------------
\* The command layer

\* jmraidstatus.c:677-711: main starts the single-disk query
\* (jm_get_disk_smart_data, jm_commands.c:316-335) or the sweep
\* (jm_get_all_disks_smart_data, jm_commands.c:354-396)
MainQuery ==
    /\ MainRuns /\ prog = "main" /\ pc = "query"
    /\ IF disk_number >= 0
       THEN i' = disk_number /\ phase' = "values" /\ UNCHANGED disks_found
       ELSE i' = 0 /\ phase' = "identify" /\ disks_found' = 0
    /\ pc' = "cmd_build"
    /\ UNCHANGED <<prog, opts, handle, backup_sector, globals, sigs, cmd_counter,
                   cmd_ctr, ctx, k, result, rc, exits, ioHist, clHist, registered,
                   sigHist, sessions, wakeSeq, frameVars, sweepVars>>

\* jm_commands.c:32-49 and jm_protocol.c:293-303: the frame is built with the
\* current counter, the counter is incremented, jm_execute_command checks its
\* arguments, stamps the CRC and scrambles.  The counter is a uint32_t; a run
\* issues at most 3 * NumSlots commands, far from the wrap.
execute_probe_command ==
    /\ MainRuns /\ pc = "cmd_build"
    /\ cmd_ctr' = cmd_counter
    /\ cmd_counter' = cmd_counter + 1
    /\ IF fd < 0
       THEN result' = "INVALID_ARGS" /\ pc' = "cmd_done"
       ELSE pc' = "cmd_write" /\ UNCHANGED result
    /\ UNCHANGED <<prog, opts, handle, backup_sector, globals, sigs, phase,
                   disks_found, ctx, i, k, rc, exits, ioHist, clHist, registered,
                   sigHist, sessions, wakeSeq, frameVars, sweepVars>>

\* jm_execute_command that returns after a successful WRITE without reading
\* the response
CommandWrite_no_read ==
    /\ MainRuns /\ pc = "cmd_write"
    /\ lastWrite' = "cmd"
    /\ lbas' = lbas \cup {CmdSector}
    /\ readsSince' = 0
    /\ cmdAfterSig' = (cmdAfterSig \/ sigSeen > 0)
    /\ \E ok \in BOOLEAN :
          IF ok
          THEN /\ lastCtr' = cmd_ctr
               /\ xchg' = "written"
               /\ result' = "SUCCESS"
               /\ pc' = "cmd_done"
          ELSE /\ xchg' = "write_failed"
               /\ result' = "IOCTL_FAILED"
               /\ pc' = "cmd_done"
               /\ UNCHANGED lastCtr
    /\ UNCHANGED <<prog, opts, handle, backup_sector, globals, sigs, cmdVars, ctx, i,
                   k, rc, exits, clHist, registered, sigHist, sessions,
                   wakeSeq, frameVars, sweepVars>>

\* jm_protocol.c:305-318: the WRITE of the command frame
CommandWrite ==
    /\ MainRuns /\ pc = "cmd_write"
    /\ lastWrite' = "cmd"
    /\ lbas' = lbas \cup {CmdSector}
    /\ readsSince' = 0
    /\ cmdAfterSig' = (cmdAfterSig \/ sigSeen > 0)
    /\ \E ok \in BOOLEAN :
          IF ok
          THEN /\ lastCtr' = cmd_ctr
               /\ xchg' = "written"
               /\ pc' = "cmd_read"
               /\ UNCHANGED result
          ELSE /\ xchg' = "write_failed"
               /\ result' = "IOCTL_FAILED"
               /\ pc' = "cmd_done"
               /\ UNCHANGED lastCtr
    /\ UNCHANGED <<prog, opts, handle, backup_sector, globals, sigs, cmdVars, ctx, i,
                   k, rc, exits, clHist, registered, sigHist, sessions,
                   wakeSeq, frameVars, sweepVars>>

\* jm_protocol.c:320-327: the READ of the response
CommandRead ==
    /\ MainRuns /\ pc = "cmd_read"
    /\ readsSince' = readsSince + 1
    /\ lbas' = lbas \cup {CmdSector}
    /\ \E ok \in BOOLEAN :
          IF ok
          THEN xchg' = "read" /\ pc' = "cmd_verify" /\ UNCHANGED result
          ELSE xchg' = "read_failed" /\ result' = "IOCTL_FAILED" /\ pc' = "cmd_done"
    /\ UNCHANGED <<prog, opts, handle, backup_sector, globals, sigs, cmdVars, ctx, i,
                   k, rc, exits, lastWrite, lastCtr, cmdAfterSig, clHist, registered,
                   sigHist, sessions, wakeSeq, frameVars, sweepVars>>

\* jm_protocol.c:329-340: unscramble, verify the CRC
CommandVerify ==
    /\ MainRuns /\ pc = "cmd_verify"
    /\ \E crcOk \in BOOLEAN :
          /\ result' = IF crcOk THEN "SUCCESS" ELSE "CRC_MISMATCH"
          /\ xchg' = IF crcOk THEN "verified" ELSE "crc_mismatch"
    /\ pc' = "cmd_done"
    /\ UNCHANGED <<prog, opts, handle, backup_sector, globals, sigs, cmdVars, ctx, i,
                   k, rc, exits, lastWrite, lastCtr, readsSince, lbas, cmdAfterSig,
                   clHist, registered, sigHist, sessions,
                   wakeSeq, frameVars, sweepVars>>

\* What follows a finished command.
\*   call:   the command function returns to the library caller.
\*   single: jm_get_disk_smart_data, jm_commands.c:334-351, then
\*           jmraidstatus.c:688-701 (it returns 0 on every path).
\*   sweep:  jm_get_all_disks_smart_data, jm_commands.c:396-437 and 486, with
\*           jm_get_disk_identify's verdict on the response (jm_commands.c:141-183)
\*           and jm_get_disk_smart_data for an identified disk; then
\*           jmraidstatus.c:711-720.
CommandDone ==
    /\ MainRuns /\ pc = "cmd_done"
    /\ \E valid \in BOOLEAN :
          LET ok == result = "SUCCESS"
              then == CASE Mode = "call" -> "return"
                        [] Mode # "call" /\ phase = "identify" ->
                              IF ok /\ valid THEN "values" ELSE "next_slot"
                        [] Mode # "call" /\ phase = "values" ->
                              IF ok THEN "thresholds" ELSE "disk_done"
                        [] OTHER -> "disk_done"
              found == IF Mode = "sweep" /\ then = "disk_done"
                       THEN disks_found + 1 ELSE disks_found
              lastSlot == i + 1 >= NumSlots
          IN  /\ disks_found' = found
              /\ result' = IF Mode = "call" THEN result ELSE "none"
              /\ IF then = "return"
                 THEN pc' = "lib_awake" /\ UNCHANGED <<phase, i, rc>>
                 ELSE IF then \in {"values", "thresholds"}
                 THEN pc' = "cmd_build" /\ phase' = then /\ UNCHANGED <<i, rc>>
                 ELSE IF Mode = "single"
                 THEN pc' = "finish" /\ UNCHANGED <<phase, i, rc>>
                 ELSE IF ~lastSlot
                 THEN pc' = "cmd_build" /\ phase' = "identify" /\ i' = i + 1
                      /\ UNCHANGED rc
                 ELSE IF found > 0
                 THEN pc' = "finish" /\ UNCHANGED <<phase, i, rc>>
                 ELSE pc' = "cl_entry" /\ rc' = [code |-> 3, site |-> "sweep"]
                      /\ UNCHANGED <<phase, i>>
    /\ UNCHANGED <<prog, opts, handle, backup_sector, globals, sigs, cmd_counter,
                   cmd_ctr, ctx, k, exits, ioHist, clHist, registered, sigHist,
                   sessions, wakeSeq, frameVars, sweepVars>>

\* jmraidstatus.c:737-794: output, exit code from the disks' health (0 or 1),
\* then the call of jm_cleanup_device
MainFinish ==
    /\ MainRuns /\ prog = "main" /\ pc = "finish"
    /\ \E code \in {0, 1} : rc' = [code |-> code, site |-> "end"]
    /\ pc' = "cl_entry"
    /\ UNCHANGED <<prog, opts, handle, backup_sector, globals, sigs, cmdVars, ctx, i,
                   k, result, exits, ioHist, clHist, registered, sigHist, sessions,
                   wakeSeq, frameVars, sweepVars>>

----------------------------------------------------------------------------
\* jm_cleanup_device

\* the return of jm_cleanup_device: main returns right after it
\* (jmraidstatus.c:673-674, 699-700, 718-719, 794-803)
CleanupReturn(res) ==
    /\ result' = res
    /\ registered' = FALSE
    /\ IF prog = "main" THEN Return(rc.code, rc.site)
       ELSE pc' = "lib_closed" /\ UNCHANGED exits

\* jm_protocol.c:174-180
CleanupEntry ==
    /\ MainRuns /\ pc = "cl_entry"
    /\ cleanupCalls' = cleanupCalls + 1
    /\ IF fd < 0
       THEN CleanupReturn("INVALID_ARGS") /\ UNCHANGED g_cleanup_done
       ELSE /\ g_cleanup_done' = 1
            /\ pc' = "cl_check"
            /\ UNCHANGED <<result, registered, exits>>
    /\ UNCHANGED <<prog, opts, handle, backup_sector, g_cleanup_fd, g_cleanup_sector,
                   sigs, cmdVars, ctx, i, k, rc, ioHist, nZeroMain, nZeroHandler,
                   nClose, sigHist, sessions, wakeSeq, frameVars, sweepVars>>

\* jm_cleanup_device without its test for a repeated call
AlreadyCleanedUp_never == FALSE

\* jm_cleanup_device that takes every call for a repeated one
AlreadyCleanedUp_always == TRUE

\* jm_protocol.c:183: the test that makes a repeated call return at once
AlreadyCleanedUp == g_cleanup_fd = -1

\* jm_protocol.c:182-185
CleanupCheck ==
    /\ MainRuns /\ pc = "cl_check"
    /\ IF AlreadyCleanedUp
       THEN CleanupReturn("SUCCESS") /\ UNCHANGED k
       ELSE pc' = "rm_signal" /\ k' = 1 /\ UNCHANGED <<result, registered, exits>>
    /\ UNCHANGED <<prog, opts, handle, backup_sector, globals, sigs, cmdVars, ctx, i,
                   rc, ioHist, clHist, sigHist, sessions,
                   wakeSeq, frameVars, sweepVars>>

\* jm_protocol.c:109-113: one signal(sig, SIG_DFL) call of jm_remove_signal_handlers
RemoveHandler ==
    /\ MainRuns /\ pc = "rm_signal"
    /\ disp' = [disp EXCEPT ![SigOrder[k]] = "dfl"]
    /\ IF k < Len(SigOrder)
       THEN k' = k + 1 /\ UNCHANGED pc
       ELSE k' = 0 /\ pc' = "rm_fd"
    /\ UNCHANGED <<prog, opts, handle, backup_sector, globals, hstack, cmdVars, ctx,
                   i, result, rc, exits, ioHist, clHist, registered, sigHist,
                   sessions, wakeSeq, frameVars, sweepVars>>

\* jm_protocol.c:114: the last statement of jm_remove_signal_handlers
RemoveFd ==
    /\ MainRuns /\ pc = "rm_fd"
    /\ g_cleanup_fd' = -1
    /\ pc' = "cl_write"
    /\ UNCHANGED <<prog, opts, handle, backup_sector, g_cleanup_sector,
                   g_cleanup_done, sigs, cmdVars, ctx, i, k, result, rc, exits,
                   ioHist, clHist, registered, sigHist, sessions,
                   wakeSeq, frameVars, sweepVars>>

\* jm_protocol.c:190-205: the WRITE of the zero sector
CleanupWrite ==
    /\ MainRuns /\ pc = "cl_write"
    /\ nZeroMain' = nZeroMain + 1
    /\ lastWrite' = "zero"
    /\ lbas' = lbas \cup {sector}
    /\ \E ok \in BOOLEAN : result' = IF ok THEN "SUCCESS" ELSE "IOCTL_FAILED"
    /\ pc' = "cl_close"
    /\ UNCHANGED <<prog, opts, handle, backup_sector, globals, sigs, cmdVars, ctx, i,
                   k, rc, exits, lastCtr, readsSince, xchg, cmdAfterSig,
                   nZeroHandler, nClose, cleanupCalls, registered, sigHist, sessions,
                   wakeSeq, frameVars, sweepVars>>

\* jm_protocol.c:205-212: close(fd) and the return, on the failed and on the
\* successful WRITE
CleanupClose ==
    /\ MainRuns /\ pc = "cl_close"
    /\ openFds' = openFds \ {fd}
    /\ nClose' = nClose + 1
    /\ g_cleanup_fd' = IF result = "SUCCESS" THEN -1 ELSE g_cleanup_fd
    /\ CleanupReturn(result)
    /\ UNCHANGED <<prog, opts, fd, backup_sector, g_cleanup_sector, g_cleanup_done,
                   sigs, cmdVars, ctx, i, k, rc, ioHist, nZeroMain, nZeroHandler,
                   cleanupCalls, sigHist, sessions, wakeSeq, frameVars, sweepVars>>

----------------------------------------------------------------------------
\* Signals

\* signals blocked from delivery: a handler's own signal while it runs
\* (sa_mask is empty and SA_NODEFER is not set, jm_protocol.c:91-92)
Blocked == {hstack[j].sig : j \in 1..Len(hstack)}

\* A signal arrives.  With the handler installed it starts on top of whatever
\* runs, and SA_RESETHAND (jm_protocol.c:92) puts the signal back to its default
\* action; with the default action the process is killed.
Deliver(s) ==
    /\ Running /\ pc # "exited"
    /\ sigSeen < MaxSignals
    /\ s \notin Blocked
    /\ sigSeen' = sigSeen + 1
    /\ firstSig' = IF sigSeen = 0 THEN s ELSE firstSig
    /\ sigAt' = IF sigSeen > 0 THEN sigAt
                ELSE IF BetweenCommands THEN "between"
                ELSE IF InWindow THEN "window" ELSE "outside"
    /\ IF disp[s] = "handler"
       THEN /\ hstack' = Append(hstack, [sig |-> s, hpc |-> "h_check"])
            /\ disp' = [disp EXCEPT ![s] = "dfl"]
            /\ UNCHANGED exits
       ELSE /\ exitCode' = 128 + s
            /\ exitHow' = "killed"
            /\ exitAt' = "signal"
            /\ UNCHANGED sigs
    /\ UNCHANGED <<prog, pc, opts, handle, backup_sector, globals, cmdVars, ctx, i, k,
                   result, rc, ioHist, clHist, registered, sessions,
                   wakeSeq, frameVars, sweepVars>>

SignalDelivery == \E s \in Signals : Deliver(s)

Top == hstack[Len(hstack)]
SetHpc(h) == hstack' = [hstack EXCEPT ![Len(hstack)].hpc = h]
InHandler(h) == Running /\ hstack # <<>> /\ Top.hpc = h

\* the handler's test without g_cleanup_done
HandlerSkips_fd_only == g_cleanup_fd < 0

\* jm_protocol.c:45: the handler has nothing to do
HandlerSkips == g_cleanup_done = 1 \/ g_cleanup_fd < 0

\* jm_protocol.c:43-47
HandlerCheck ==
    /\ InHandler("h_check")
    /\ IF HandlerSkips
       THEN HandlerExit(128 + Top.sig) /\ UNCHANGED hstack
       ELSE SetHpc("h_mark") /\ UNCHANGED exits
    /\ UNCHANGED <<prog, pc, opts, handle, backup_sector, globals, disp, cmdVars, ctx,
                   i, k, result, rc, ioHist, clHist, registered, sigHist, sessions,
                   wakeSeq, frameVars, sweepVars>>

\* jm_protocol.c:49-50
HandlerMark ==
    /\ InHandler("h_mark")
    /\ g_cleanup_done' = 1
    /\ SetHpc("h_write")
    /\ UNCHANGED <<prog, pc, opts, handle, backup_sector, g_cleanup_fd,
                   g_cleanup_sector, disp, cmdVars, ctx, i, k, result, rc, exits,
                   ioHist, clHist, registered, sigHist, sessions,
                   wakeSeq, frameVars, sweepVars>>

\* jm_protocol.c:52-78: the WRITE of the zero sector, its result ignored
HandlerWrite ==
    /\ InHandler("h_write")
    /\ nZeroHandler' = nZeroHandler + 1
    /\ lastWrite' = "zero"
    /\ lbas' = lbas \cup {g_cleanup_sector}
    /\ SetHpc("h_exit")
    /\ UNCHANGED <<prog, pc, opts, handle, backup_sector, globals, disp, cmdVars, ctx,
                   i, k, result, rc, exits, lastCtr, readsSince, xchg, cmdAfterSig,
                   nZeroMain, nClose, cleanupCalls, registered, sigHist, sessions,
                   wakeSeq, frameVars, sweepVars>>

\* a handler that returns to the interrupted code instead of calling _exit
HandlerLeave_returns ==
    /\ InHandler("h_exit")
    /\ hstack' = SubSeq(hstack, 1, Len(hstack) - 1)
    /\ UNCHANGED <<prog, pc, opts, handle, backup_sector, globals, disp, cmdVars, ctx,
                   i, k, result, rc, exits, ioHist, clHist, registered, sigHist,
                   sessions, wakeSeq, frameVars, sweepVars>>

\* jm_protocol.c:80-81
HandlerLeave ==
    /\ InHandler("h_exit")
    /\ HandlerExit(128 + Top.sig)
    /\ UNCHANGED <<prog, pc, opts, handle, backup_sector, globals, sigs, cmdVars, ctx,
                   i, k, result, rc, ioHist, clHist, registered, sigHist, sessions,
                   wakeSeq, frameVars, sweepVars>>

----------------------------------------------------------------------------
\* The library caller (prog = "lib"): src/tests and src/scripts call
\* jm_init_device, jm_send_wakeup, command functions and jm_cleanup_device in
\* this order; jm_setup_signal_handlers is the caller's choice (jm_protocol.h:48-55)

\* jm_commands.c:23-25, called once before the first session (jm_commands.h:25-29)
jm_set_context ==
    /\ MainRuns /\ prog = "lib" /\ pc = "lib"
    /\ ctx = NoCtx /\ sessions = 0
    /\ \E cs \in CtxSectors : ctx' = cs
    /\ UNCHANGED <<prog, pc, opts, handle, backup_sector, globals, sigs, cmdVars, i,
                   k, result, rc, exits, ioHist, clHist, registered, sigHist,
                   sessions, wakeSeq, frameVars, sweepVars>>

\* the caller opens a session
LibOpen ==
    /\ MainRuns /\ prog = "lib" /\ pc \in {"lib", "lib_closed"}
    /\ sessions < MaxSessions
    /\ sector' = LibSector
    /\ pc' = "init"
    /\ UNCHANGED <<prog, disk_number, handle, backup_sector, globals, sigs, cmdVars,
                   ctx, i, k, result, rc, exits, ioHist, clHist, registered, sigHist,
                   sessions, wakeSeq, frameVars, sweepVars>>

\* the caller registers the signal handlers
LibSetup ==
    /\ MainRuns /\ prog = "lib" /\ pc = "lib_open"
    /\ ~registered
    /\ pc' = "setup"
    /\ UNCHANGED <<prog, opts, handle, backup_sector, globals, sigs, cmdVars, ctx, i,
                   k, result, rc, exits, ioHist, clHist, registered, sigHist,
                   sessions, wakeSeq, frameVars, sweepVars>>

\* the caller calls jm_send_wakeup
LibWakeup ==
    /\ MainRuns /\ prog = "lib" /\ pc = "lib_open"
    /\ i' = 0
    /\ wakeSeq' = <<>>
    /\ pc' = "wakeup"
    /\ UNCHANGED <<prog, opts, handle, backup_sector, globals, sigs, cmdVars, ctx, k,
                   result, rc, exits, ioHist, clHist, registered, sigHist, sessions,
                   frameVars, sweepVars>>

\* the caller calls jm_get_disk_identify, jm_smart_read_values or
\* jm_smart_read_thresholds, which differ in the probe bytes only: each returns
\* -1 before building a frame when no context is set (jm_commands.c:124-128,
\* 235-239, 289-293), and else calls execute_probe_command
LibCommand ==
    /\ MainRuns /\ prog = "lib" /\ pc = "lib_awake"
    /\ cmd_counter <= MaxLibCmds
    /\ IF ctx = NoCtx
       THEN result' = "NO_CONTEXT" /\ UNCHANGED pc
       ELSE pc' = "cmd_build" /\ UNCHANGED result
    /\ UNCHANGED <<prog, opts, handle, backup_sector, globals, sigs, cmdVars, ctx, i,
                   k, rc, exits, ioHist, clHist, registered, sigHist, sessions,
                   wakeSeq, frameVars, sweepVars>>

\* the caller calls jm_cleanup_device(fd, sector): on an open session, or once
\* more with the same arguments after the call has returned
LibCleanup ==
    /\ MainRuns /\ prog = "lib" /\ pc \in {"lib_open", "lib_awake", "lib_closed"}
    /\ cleanupCalls < MaxCleanupCalls
    /\ pc' = "cl_entry"
    /\ UNCHANGED <<prog, opts, handle, backup_sector, globals, sigs, cmdVars, ctx, i,
                   k, result, rc, exits, ioHist, clHist, registered, sigHist,
                   sessions, wakeSeq, frameVars, sweepVars>>

----------------------------------------------------------------------------
Next ==
    \/ MainStart
    \/ MainDetect
    \/ jm_init_device
    \/ PreRunRead
    \/ MainCheckEmpty
    \/ jm_setup_signal_handlers
    \/ InstallHandler
    \/ jm_send_wakeup
    \/ MainQuery
    \/ execute_probe_command
    \/ CommandWrite
    \/ CommandRead
    \/ CommandVerify
    \/ CommandDone
    \/ MainFinish
    \/ CleanupEntry
    \/ CleanupCheck
    \/ RemoveHandler
    \/ RemoveFd
    \/ CleanupWrite
    \/ CleanupClose
    \/ SignalDelivery
    \/ HandlerCheck
    \/ HandlerMark
    \/ HandlerWrite
    \/ HandlerLeave
    \/ jm_set_context
    \/ LibOpen
    \/ LibSetup
    \/ LibWakeup
    \/ LibCommand
    \/ LibCleanup

Spec == Init /\ [][Next]_vars

\* main alone, run to its end without signals, over every --sector input
InitMain == Init /\ prog = "main"

NextMain ==
    \/ MainStartAny
    \/ MainDetect
    \/ jm_init_device
    \/ PreRunRead
    \/ MainCheckEmpty
    \/ jm_setup_signal_handlers
    \/ InstallHandler
    \/ jm_send_wakeup
    \/ MainQuery
    \/ execute_probe_command
    \/ CommandWrite
    \/ CommandRead
    \/ CommandVerify
    \/ CommandDone
    \/ MainFinish
    \/ CleanupEntry
    \/ CleanupCheck
    \/ RemoveHandler
    \/ RemoveFd
    \/ CleanupWrite
    \/ CleanupClose

SpecMain == InitMain /\ [][NextMain]_vars

----------------------------------------------------------------------------
\* The frame codec: JM_CRC (jm_crc.c) and SATA_XOR (sata_xor.h), on frames of
\* FrameWords 32-bit words.  A word is written <<high half, low half>>, each half
\* in 0..65535, so that all arithmetic is exact in 32 bits.

\* words of a frame: 128 in the program (512 bytes); the last word holds the CRC
FrameWords == 4

\* jm_crc.c:13
CRC32_POLY == <<\H04C1, \H1DB7>>

\* jm_crc.c:16
JM_CRC_SEED == <<\H5232, \H5032>>

\* jm_commands.c:15
JM_RAID_SCRAMBLED_CMD == <<\H197b, \H0322>>

ZeroWord == <<0, 0>>

\* bitwise exclusive or of two naturals (the C operator ^)
RECURSIVE BitXor(_, _)
BitXor(a, b) ==
    IF a = 0 THEN b
    ELSE IF b = 0 THEN a
    ELSE ((a + b) % 2) + 2 * BitXor(a \div 2, b \div 2)

WordXor(x, y) == <<BitXor(x[1], y[1]), BitXor(x[2], y[2])>>

\* crc << 1 and crc << 8 in uint32_t
Shl1(w) == <<(w[1] % 32768) * 2 + (w[2] \div 32768), (w[2] % 32768) * 2>>
Shl8(w) == <<(w[1] % 256) * 256 + (w[2] \div 256), (w[2] % 256) * 256>>

\* jm_crc.c:31-41: the inner loop of init_crc_table, j steps left to do
RECURSIVE TableSteps(_, _)
TableSteps(crc, j) ==
    IF j = 0 THEN crc
    ELSE TableSteps(IF crc[1] >= 32768 THEN WordXor(Shl1(crc), CRC32_POLY)
                    ELSE Shl1(crc),
                    j - 1)

\* jm_crc.c:28-43: init_crc_table, crc_table[b] from crc = b << 24
crc_table == [b \in 0..255 |-> TableSteps(<<b * 256, 0>>, 8)]

\* jm_crc.c:72-75: one byte through the table
CrcByte(crc, byte) == WordXor(crc_table[BitXor(byte, crc[1] \div 256)], Shl8(crc))

\* jm_crc.c:69-75: one word, after __builtin_bswap32: its bytes from the most
\* significant to the least significant
CrcWord(crc, w) ==
    CrcByte(CrcByte(CrcByte(CrcByte(crc, w[1] \div 256), w[1] % 256),
                    w[2] \div 256), w[2] % 256)

\* jm_crc.c:66-76: the loop over the words, at word n of num_words with crc
\* accumulated so far (the test of crc makes the accumulator a value before the
\* next pass)
RECURSIVE CrcLoop(_, _, _, _)
CrcLoop(crc, buf, n, num_words) ==
    IF n > num_words \/ crc[1] < 0 THEN crc
    ELSE CrcLoop(CrcWord(crc, buf[n]), buf, n + 1, num_words)

\* jm_crc.c:57-79
JM_CRC(buf, num_words) == CrcLoop(JM_CRC_SEED, buf, 1, num_words)

\* The scrambling table.  sata_xor.h declares SATA_XOR; its definition and the
\* 512-byte table are not among the sources.  After the interface description
\* (a fixed XOR mask over the whole frame) the table is stood in for by a fixed
\* mask, none of whose words is zero.
SATA_XOR_MASK == [j \in 1..FrameWords |-> <<(\H9e37 * j) % 65536, (\H79b9 + j) % 65536>>]

\* a scrambler that adds the mask instead of XOR-ing it
SATA_XOR_adds(theData) ==
    [j \in 1..FrameWords |->
        <<(theData[j][1] + SATA_XOR_MASK[j][1]) % 65536,
          (theData[j][2] + SATA_XOR_MASK[j][2]) % 65536>>]

\* sata_xor.h:18: scrambles / unscrambles the frame in place
SATA_XOR(theData) == [j \in 1..FrameWords |-> WordXor(theData[j], SATA_XOR_MASK[j])]

\* jm_protocol.c:299-300: cmd_buf[0x7f] = JM_CRC(cmd_buf, 0x7f)
StampCrc(f) == [f EXCEPT ![FrameWords] = JM_CRC(f, FrameWords - 1)]

----------------------------------------------------------------------------
\* One command exchange with its frame content: execute_probe_command
\* (jm_commands.c:32-53) and jm_execute_command (jm_protocol.c:293-341),
\* statement by statement, for a library caller in an awake session.

\* command exchanges per run
MaxFrames == 2

\* n as a 32-bit word
Word(n) == <<n \div 65536, n % 65536>>

\* bytes 8..11 of the frame as a little-endian word: the first four probe bytes
\* of IDENTIFY {00 02 02 ff} (jm_commands.c:131-136) and of the SMART reads
\* {00 02 03 ff} (jm_commands.c:242-249, 296-303)
ProbeWords == {<<\Hff02, \H0200>>, <<\Hff03, \H0200>>}

\* payload words of the responses the bridge may leave in the sector
ResponseWords == {<<\H4a4d, \H0f00>>}

\* one flipped bit
BitFlip == <<0, 1>>

\* the session after jm_set_context, jm_init_device and jm_send_wakeup succeeded
InitFrame ==
    /\ prog = "lib" /\ pc = "lib_awake"
    /\ sector = LibSector /\ disk_number = -1
    /\ fd = 3 /\ openFds = {3}
    /\ backup_sector = <<>>
    /\ g_cleanup_fd = -1 /\ g_cleanup_sector = 0 /\ g_cleanup_done = 0
    /\ disp = [s \in Signals |-> "dfl"] /\ hstack = <<>>
    /\ cmd_counter = 1 /\ ctx = LibSector /\ cmd_ctr = 0
    /\ i = NumWakeup /\ k = 0 /\ phase = "none" /\ disks_found = 0
    /\ result = "SUCCESS" /\ rc = [code |-> 0, site |-> "none"]
    /\ exitCode = -1 /\ exitHow = "running" /\ exitAt = "none"
    /\ lastWrite = "wakeup" /\ lastCtr = 0 /\ readsSince = -1 /\ xchg = "none"
    /\ lbas = {LibSector}
    /\ nZeroMain = 0 /\ nZeroHandler = 0 /\ nClose = 0 /\ cleanupCalls = 0
    /\ registered = FALSE
    /\ sigSeen = 0 /\ firstSig = 0 /\ sigAt = "none" /\ cmdAfterSig = FALSE
    /\ sessions = 1
    /\ wakeSeq = wakeup_values
    /\ FrameIdle
    /\ SweepIdle

\* what no step of an exchange changes
frameFixed == <<prog, opts, handle, backup_sector, globals, sigs, ctx, i, k, phase,
                disks_found, rc, exits, cmdAfterSig, clHist, registered, sigHist,
                sessions, wakeSeq, sweepVars>>

\* jm_commands.c:38-46: zero-fill, magic, counter (post-incremented), probe bytes
FrameBuild ==
    /\ MainRuns /\ pc = "lib_awake" /\ cmd_counter <= MaxFrames
    /\ \E probe \in ProbeWords :
          cmd_buf' = [j \in 1..FrameWords |->
                         IF j = 1 THEN JM_RAID_SCRAMBLED_CMD
                         ELSE IF j = 2 THEN Word(cmd_counter)
                         ELSE IF j = 3 THEN probe
                         ELSE ZeroWord]
    /\ plain' = cmd_buf'
    /\ cmd_ctr' = cmd_counter
    /\ cmd_counter' = cmd_counter + 1
    /\ tampered' = FALSE
    /\ pc' = "f_crc"
    /\ UNCHANGED <<frameFixed, result, lastWrite, lastCtr, readsSince, xchg, lbas,
                   media, resp_buf, prevResult>>

\* jm_protocol.c:294-300: argument check, CRC of words 0..126 into word 127
FrameCrc ==
    /\ MainRuns /\ pc = "f_crc"
    /\ IF fd < 0
       THEN result' = "INVALID_ARGS" /\ pc' = "f_done" /\ UNCHANGED cmd_buf
       ELSE cmd_buf' = StampCrc(cmd_buf) /\ pc' = "f_xor" /\ UNCHANGED result
    /\ UNCHANGED <<frameFixed, cmd_counter, cmd_ctr, lastWrite, lastCtr, readsSince,
                   xchg, lbas, media, resp_buf, plain, prevResult, tampered>>

\* jm_protocol.c:303: SATA_XOR(cmd_buf)
FrameScramble ==
    /\ MainRuns /\ pc = "f_xor"
    /\ cmd_buf' = SATA_XOR(cmd_buf)
    /\ pc' = "f_write"
    /\ UNCHANGED <<frameFixed, cmd_counter, cmd_ctr, result, lastWrite, lastCtr,
                   readsSince, xchg, lbas, media, resp_buf, plain, prevResult,
                   tampered>>

\* jm_protocol.c:305-318: WRITE of cmd_buf to the sector
FrameWrite ==
    /\ MainRuns /\ pc = "f_write"
    /\ lastWrite' = "cmd"
    /\ lbas' = lbas \cup {CmdSector}
    /\ readsSince' = 0
    /\ \E ok \in BOOLEAN :
          IF ok
          THEN /\ media' = cmd_buf
               /\ lastCtr' = cmd_ctr
               /\ xchg' = "written"
               /\ pc' = "f_dev"
               /\ UNCHANGED result
          ELSE /\ xchg' = "write_failed"
               /\ result' = "IOCTL_FAILED"
               /\ pc' = "f_done"
               /\ UNCHANGED <<media, lastCtr>>
    /\ UNCHANGED <<frameFixed, cmd_counter, cmd_ctr, cmd_buf, resp_buf, plain,
                   prevResult, tampered>>

\* The bridge answers through the same sector: it leaves the frame as written,
\* a well-formed response (CRC-stamped, scrambled), or either of them with one
\* bit flipped in one word.
DeviceRespond ==
    /\ MainRuns /\ pc = "f_dev"
    /\ \E good \in {media} \cup
                   {SATA_XOR(StampCrc([plain EXCEPT ![3] = w])) : w \in ResponseWords} :
          \/ media' = good /\ tampered' = FALSE
          \/ \E j \in 1..FrameWords :
                /\ media' = [good EXCEPT ![j] = WordXor(good[j], BitFlip)]
                /\ tampered' = TRUE
    /\ pc' = "f_read"
    /\ UNCHANGED <<frameFixed, cmd_counter, cmd_ctr, result, lastWrite, lastCtr,
                   readsSince, xchg, lbas, cmd_buf, resp_buf, plain, prevResult>>

\* jm_protocol.c:320-327: READ of the sector into resp_buf
FrameRead ==
    /\ MainRuns /\ pc = "f_read"
    /\ readsSince' = readsSince + 1
    /\ \E ok \in BOOLEAN :
          IF ok
          THEN /\ resp_buf' = media
               /\ xchg' = "read"
               /\ pc' = "f_unxor"
               /\ UNCHANGED result
          ELSE /\ xchg' = "read_failed"
               /\ result' = "IOCTL_FAILED"
               /\ pc' = "f_done"
               /\ UNCHANGED resp_buf
    /\ UNCHANGED <<frameFixed, cmd_counter, cmd_ctr, lastWrite, lastCtr, lbas,
                   cmd_buf, media, plain, prevResult, tampered>>

\* a response handed to the CRC check still scrambled
FrameUnscramble_skipped ==
    /\ MainRuns /\ pc = "f_unxor"
    /\ pc' = "f_verify"
    /\ UNCHANGED <<frameFixed, cmd_counter, cmd_ctr, result, lastWrite, lastCtr,
                   readsSince, xchg, lbas, cmd_buf, media, resp_buf, plain,
                   prevResult, tampered>>

\* jm_protocol.c:329-330: SATA_XOR(resp_buf)
FrameUnscramble ==
    /\ MainRuns /\ pc = "f_unxor"
    /\ resp_buf' = SATA_XOR(resp_buf)
    /\ pc' = "f_verify"
    /\ UNCHANGED <<frameFixed, cmd_counter, cmd_ctr, result, lastWrite, lastCtr,
                   readsSince, xchg, lbas, cmd_buf, media, plain, prevResult,
                   tampered>>

\* a CRC check that leaves out the last data word
FrameVerify_short ==
    /\ MainRuns /\ pc = "f_verify"
    /\ IF JM_CRC(resp_buf, FrameWords - 2) # resp_buf[FrameWords]
       THEN result' = "CRC_MISMATCH" /\ xchg' = "crc_mismatch"
       ELSE result' = "SUCCESS" /\ xchg' = "verified"
    /\ pc' = "f_done"
    /\ UNCHANGED <<frameFixed, cmd_counter, cmd_ctr, lastWrite, lastCtr, readsSince,
                   lbas, frameVars>>

\* jm_protocol.c:332-340: CRC of words 0..126 against word 127
FrameVerify ==
    /\ MainRuns /\ pc = "f_verify"
    /\ IF JM_CRC(resp_buf, FrameWords - 1) # resp_buf[FrameWords]
       THEN result' = "CRC_MISMATCH" /\ xchg' = "crc_mismatch"
       ELSE result' = "SUCCESS" /\ xchg' = "verified"
    /\ pc' = "f_done"
    /\ UNCHANGED <<frameFixed, cmd_counter, cmd_ctr, lastWrite, lastCtr, readsSince,
                   lbas, frameVars>>

\* jm_commands.c:49-52: back in the caller; cmd_buf is gone with the stack frame
FrameReturn ==
    /\ MainRuns /\ pc = "f_done"
    /\ prevResult' = result
    /\ cmd_buf' = <<>>
    /\ plain' = <<>>
    /\ pc' = "lib_awake"
    /\ UNCHANGED <<frameFixed, cmd_counter, cmd_ctr, result, lastWrite, lastCtr,
                   readsSince, xchg, lbas, media, resp_buf, tampered>>

NextFrame ==
    \/ FrameBuild
    \/ FrameCrc
    \/ FrameScramble
    \/ FrameWrite
    \/ DeviceRespond
    \/ FrameRead
    \/ FrameUnscramble
    \/ FrameVerify
    \/ FrameReturn

SpecFrame == InitFrame /\ [][NextFrame]_vars

----------------------------------------------------------------------------
\* jm_get_all_disks_smart_data, one command function per step

\* --array-size values the context may carry, 0 = not given
ExpectedSizes == {0, 1, 2}
\* byte 0x1F0 of an IDENTIFY response: 0x01 and 0x83
Bitmasks == {1, 131}
\* how one command exchange of jm_execute_command can end
Exchanges == {"verified", "crc_mismatch", "write_failed", "read_failed"}
\* the SMART values page of a disk, by what the health rules make of it: no
\* attribute fails / a critical attribute has a non-zero raw value / an attribute
\* is at or below the manufacturer threshold of the disk's thresholds page
ValuesPages == {"healthy", "critical_raw", "below_threshold"}
\* attributes with a non-zero id on a values page
PageAttributes == 1

\* jm_protocol.c:316-340: the return value of jm_execute_command
ExchangeResult(x) ==
    CASE x = "verified" -> "SUCCESS"
      [] x = "crc_mismatch" -> "CRC_MISMATCH"
      [] OTHER -> "IOCTL_FAILED"

\* jm_commands.c:32-53 with jm_protocol.c:293-341: execute_probe_command as one
\* step that ends as x
Exchange(x) ==
    /\ cmd_ctr' = cmd_counter
    /\ cmd_counter' = cmd_counter + 1
    /\ lastWrite' = "cmd"
    /\ lbas' = lbas \cup {CmdSector}
    /\ lastCtr' = IF x = "write_failed" THEN lastCtr ELSE cmd_counter
    /\ readsSince' = IF x = "write_failed" THEN 0 ELSE 1
    /\ xchg' = x
    /\ result' = ExchangeResult(x)

\* jm_commands.c:52, 280, 313: the command functions return -1 when
\* execute_probe_command failed; smart_parse_values and smart_parse_thresholds
\* return 0 (smart_parser.c:35-55)
CommandReturn(x) == IF ExchangeResult(x) = "SUCCESS" THEN 0 ELSE -1

\* jm_commands.c:141-183, 217: -1 on a failed exchange, -2 when the response does
\* not look like a disk, else 0
jm_get_disk_identify(x, valid) ==
    IF ExchangeResult(x) # "SUCCESS" THEN -1
    ELSE IF ~valid THEN -2
    ELSE 0

\* the sweep taking the bitmask of every response that passed the CRC check
LatchBitmask_every(res) == res = 0 \/ res = -2

\* jm_commands.c:400: the condition under which the bitmask is captured
LatchBitmask(res) == bitmask_captured = 0 /\ (res = 0 \/ res = -2)

\* the sweep ending at the first slot whose IDENTIFY failed
SlotAfterIdentify_break(res, slot) == IF res = -1 THEN NumSlots ELSE slot + 1

\* jm_commands.c:405-417 and 375: continue, for an empty slot and for an error alike
SlotAfterIdentify(res, slot) == slot + 1

\* the record of line 335-341 with the status left at its zero value
SmartDataUnavailable_passed ==
    [is_present |-> 1, overall_status |-> "PASSED", num_attributes |-> 0]

\* jm_commands.c:325-341: the record of a disk whose SMART values could not be read
SmartDataUnavailable ==
    [is_present |-> 1, overall_status |-> "ERROR", num_attributes |-> 0]

\* smart_parser.c:57-145: assess_overall_health over assess_attribute_health for
\* a present disk: a critical attribute with a non-zero raw value fails by the
\* default rules (92-108); current <= threshold fails only for a threshold > 0
\* (111-115), which an all-zero thresholds page never has
PageHealth(page, thresholds) ==
    IF page = "critical_raw" THEN "FAILED"
    ELSE IF page = "below_threshold" /\ thresholds = "device" THEN "FAILED"
    ELSE "PASSED"

\* smart_parser.c:147-222: the record is cleared, marked present, filled with
\* the attributes of the page and assessed
smart_combine_data(page, thresholds) ==
    [is_present |-> 1,
     overall_status |-> PageHealth(page, thresholds),
     num_attributes |-> PageAttributes]

\* jm_get_disk_smart_data that keeps the thresholds page after a failed read
ThresholdsFor_none(ret) == "device"

\* jm_commands.c:343-348: the thresholds page handed to smart_combine_data, all
\* zeros when jm_smart_read_thresholds failed
ThresholdsFor(ret) == IF ret # 0 THEN "zero" ELSE "device"

\* jm_commands.c:444-449: the number of bits set among bits 0..7
disks_from_bitmask(mask) ==
    Cardinality({b \in 0..7 : (mask \div (2 ^ b)) % 2 = 1})

\* the session is awake and the caller has set the runtime context, or not
InitSweep ==
    /\ prog = "lib" /\ pc = "lib_awake"
    /\ sector = LibSector /\ disk_number = -1
    /\ fd = 3 /\ openFds = {3}
    /\ backup_sector = <<>>
    /\ g_cleanup_fd = -1 /\ g_cleanup_sector = 0 /\ g_cleanup_done = 0
    /\ disp = [s \in Signals |-> "dfl"] /\ hstack = <<>>
    /\ cmd_counter = 1 /\ cmd_ctr = 0
    /\ ctx \in {NoCtx} \cup CtxSectors
    /\ i = NumWakeup /\ k = 0 /\ phase = "none" /\ disks_found = 0
    /\ result = "SUCCESS" /\ rc = [code |-> 0, site |-> "none"]
    /\ exitCode = -1 /\ exitHow = "running" /\ exitAt = "none"
    /\ lastWrite = "wakeup" /\ lastCtr = 0 /\ readsSince = -1 /\ xchg = "none"
    /\ lbas = {LibSector}
    /\ nZeroMain = 0 /\ nZeroHandler = 0 /\ nClose = 0 /\ cleanupCalls = 0
    /\ registered = FALSE
    /\ sigSeen = 0 /\ firstSig = 0 /\ sigAt = "none" /\ cmdAfterSig = FALSE
    /\ sessions = 1
    /\ wakeSeq = wakeup_values
    /\ FrameIdle
    /\ expected_array_size \in (IF ctx = NoCtx THEN {0} ELSE ExpectedSizes)
    /\ disk_data = [s \in Slots |-> EmptyRecord]
    /\ disk_bitmask = 0
    /\ bitmask_captured = 0
    /\ is_degraded = 0
    /\ present_disks = Unset
    /\ num_disks = Unset
    /\ identify_result = NoResult
    /\ bitmask_temp = 0
    /\ values_page = "none"
    /\ cmdLog = <<>>
    /\ firstMask = Unset
    /\ moreThanExpected = FALSE
    /\ UnitIdle

\* what no step of the sweep changes
sweepFixed == <<prog, opts, handle, backup_sector, globals, sigs, ctx, k, rc, exits,
                cmdAfterSig, clHist, registered, sigHist, sessions, wakeSeq,
                frameVars, expected_array_size, unitVars>>

\* jm_commands.c:355-372: the locals, the argument and context checks, *is_degraded = 0
SweepStart ==
    /\ MainRuns /\ pc = "lib_awake"
    /\ IF ctx = NoCtx
       THEN /\ result' = "NO_CONTEXT"
            /\ pc' = "sw_done"
            /\ UNCHANGED <<i, disks_found, disk_bitmask, bitmask_captured, is_degraded>>
       ELSE /\ disks_found' = 0
            /\ disk_bitmask' = 0
            /\ bitmask_captured' = 0
            /\ is_degraded' = 0
            /\ i' = 0
            /\ pc' = "sw_loop"
            /\ UNCHANGED result
    /\ UNCHANGED <<sweepFixed, cmd_counter, cmd_ctr, phase, lastWrite, lastCtr,
                   readsSince, xchg, lbas, disk_data, present_disks, num_disks,
                   identify_result, bitmask_temp, values_page, cmdLog, firstMask,
                   moreThanExpected>>

\* jm_commands.c:375-417: one iteration up to the branch on identify_result: the
\* record of the slot is cleared, jm_get_disk_identify is called (119-218), the
\* bitmask is captured, an empty slot or an error continues with the next slot
SweepIdentify ==
    /\ MainRuns /\ pc = "sw_loop" /\ i < NumSlots
    /\ phase' = "identify"
    /\ values_page' = "none"
    /\ disk_data' = [disk_data EXCEPT ![i] = EmptyRecord]
    /\ \E x \in Exchanges, valid \in BOOLEAN, mask \in Bitmasks :
          LET res == jm_get_disk_identify(x, valid)
              temp == IF res = -1 THEN 0 ELSE mask
          IN  /\ Exchange(x)
              /\ identify_result' = res
              /\ bitmask_temp' = temp
              /\ firstMask' = IF firstMask = Unset /\ x = "verified"
                              THEN mask ELSE firstMask
              /\ IF LatchBitmask(res)
                 THEN disk_bitmask' = temp /\ bitmask_captured' = 1
                 ELSE UNCHANGED <<disk_bitmask, bitmask_captured>>
              /\ cmdLog' = Append(cmdLog, <<"identify", i, res>>)
              /\ IF res = 0
                 THEN pc' = "sw_values" /\ UNCHANGED i
                 ELSE i' = SlotAfterIdentify(res, i) /\ UNCHANGED pc
    /\ UNCHANGED <<sweepFixed, disks_found, is_degraded, present_disks, num_disks,
                   moreThanExpected>>

\* jm_commands.c:424 with 316-341: jm_get_disk_smart_data marks the record
\* present and calls jm_smart_read_values (230-282); when that fails the record
\* gets the error status, the function returns 0 and the sweep counts the disk
\* (433) and goes to the next slot
SmartReadValues ==
    /\ MainRuns /\ pc = "sw_values"
    /\ phase' = "values"
    /\ \E x \in Exchanges, page \in ValuesPages :
          LET ret == CommandReturn(x)
          IN  /\ Exchange(x)
              /\ cmdLog' = Append(cmdLog, <<"values", i, ret>>)
              /\ IF ret # 0
                 THEN /\ disk_data' = [disk_data EXCEPT ![i] = SmartDataUnavailable]
                      /\ disks_found' = disks_found + 1
                      /\ i' = i + 1
                      /\ pc' = "sw_loop"
                      /\ UNCHANGED values_page
                 ELSE /\ disk_data' = [disk_data EXCEPT ![i].is_present = 1]
                      /\ values_page' = page
                      /\ pc' = "sw_thresholds"
                      /\ UNCHANGED <<i, disks_found>>
    /\ UNCHANGED <<sweepFixed, disk_bitmask, bitmask_captured, is_degraded,
                   present_disks, num_disks, identify_result, bitmask_temp, firstMask,
                   moreThanExpected>>

\* jm_commands.c:343-351 and 424-434: jm_smart_read_thresholds (284-314), the
\* thresholds zeroed when it failed, smart_combine_data; the function returns 0
\* and the sweep counts the disk
SmartReadThresholds ==
    /\ MainRuns /\ pc = "sw_thresholds"
    /\ phase' = "thresholds"
    /\ \E x \in Exchanges :
          LET ret == CommandReturn(x)
          IN  /\ Exchange(x)
              /\ cmdLog' = Append(cmdLog, <<"thresholds", i, ret>>)
              /\ disk_data' = [disk_data EXCEPT
                                 ![i] = smart_combine_data(values_page, ThresholdsFor(ret))]
    /\ disks_found' = disks_found + 1
    /\ i' = i + 1
    /\ pc' = "sw_loop"
    /\ UNCHANGED <<sweepFixed, disk_bitmask, bitmask_captured, is_degraded,
                   present_disks, num_disks, identify_result, bitmask_temp,
                   values_page, firstMask, moreThanExpected>>

\* jm_commands.c:437-486: *num_disks, the comparison of the bitmask with the
\* expected size, *is_degraded, the return value
SweepFinish ==
    /\ MainRuns /\ pc = "sw_loop" /\ i >= NumSlots
    /\ num_disks' = disks_found
    /\ IF expected_array_size > 0 /\ bitmask_captured = 1
       THEN /\ present_disks' = disks_from_bitmask(disk_bitmask)
            /\ is_degraded' = IF present_disks' < expected_array_size THEN 1 ELSE 0
            /\ moreThanExpected' = (present_disks' > expected_array_size)
       ELSE /\ is_degraded' = 0
            /\ UNCHANGED <<present_disks, moreThanExpected>>
    /\ result' = IF disks_found > 0 THEN "SUCCESS" ELSE "NO_DISKS"
    /\ identify_result' = NoResult
    /\ bitmask_temp' = 0
    /\ values_page' = "none"
    /\ pc' = "sw_done"
    /\ UNCHANGED <<sweepFixed, cmd_counter, cmd_ctr, i, phase, disks_found, lastWrite,
                   lastCtr, readsSince, xchg, lbas, disk_data, disk_bitmask,
                   bitmask_captured, cmdLog, firstMask>>

NextSweep ==
    \/ SweepStart
    \/ SweepIdentify
    \/ SmartReadValues
    \/ SmartReadThresholds
    \/ SweepFinish

SpecSweep == InitSweep /\ [][NextSweep]_vars

----------------------------------------------------------------------------
\* main from the query to the exit code

\* what the stack may hold in a record of disk_data that nothing has written
\* (jmraidstatus.c:511 declares the array without an initialiser)
StackRecords ==
    [is_present : {0, 1}, overall_status : {"PASSED", "FAILED"}, num_attributes : {0}]

\* the records a sweep leaves in a slot: jm_commands.c:387-389, 335-341, 351
SweepRecords ==
    {EmptyRecord, SmartDataUnavailable}
       \cup {smart_combine_data(p, t) : p \in ValuesPages, t \in {"zero", "device"}}

\* the disk numbers of --disk that are tried, -1 = all disks
VerdictDisks == {-1, 0, 3}

\* jmraidstatus.c:484-504
determine_exit_code(disks) ==
    IF \E s \in Slots : disks[s].is_present # 0 /\ disks[s].overall_status = "FAILED"
    THEN 1 ELSE 0

\* main that leaves the exit code of a degraded array as it is
DegradedExitCode_ignored(code) == code

\* jmraidstatus.c:783-786
DegradedExitCode(code) == IF is_degraded # 0 /\ code = 0 THEN 1 ELSE code

\* main after jm_send_wakeup succeeded (jmraidstatus.c:665-676)
InitVerdict ==
    /\ prog = "main" /\ pc = "query"
    /\ sector = LegacySector /\ disk_number \in VerdictDisks
    /\ fd = 3 /\ openFds = {3}
    /\ backup_sector = [j \in 1..SectorLen |-> 0]
    /\ g_cleanup_fd = 3 /\ g_cleanup_sector = LegacySector /\ g_cleanup_done = 0
    /\ disp = [s \in Signals |-> "handler"] /\ hstack = <<>>
    /\ cmd_counter = 1 /\ ctx = NoCtx /\ cmd_ctr = 0
    /\ i = NumWakeup /\ k = 0 /\ phase = "none" /\ disks_found = 0
    /\ result = "SUCCESS" /\ rc = [code |-> 0, site |-> "none"]
    /\ exitCode = -1 /\ exitHow = "running" /\ exitAt = "none"
    /\ lastWrite = "wakeup" /\ lastCtr = 0 /\ readsSince = -1 /\ xchg = "none"
    /\ lbas = {LegacySector}
    /\ nZeroMain = 0 /\ nZeroHandler = 0 /\ nClose = 0 /\ cleanupCalls = 0
    /\ registered = TRUE
    /\ sigSeen = 0 /\ firstSig = 0 /\ sigAt = "none" /\ cmdAfterSig = FALSE
    /\ sessions = 1
    /\ wakeSeq = wakeup_values
    /\ FrameIdle
    /\ expected_array_size = 0
    \* a sweep clears all five records before it uses them; a single-disk query
    \* writes one and leaves the others as the stack had them
    /\ disk_data \in (IF disk_number >= 0 THEN [Slots -> StackRecords]
                      ELSE {[s \in Slots |-> EmptyRecord]})
    /\ disk_bitmask = 0
    /\ bitmask_captured = 0
    /\ is_degraded = 0
    /\ present_disks = Unset
    /\ num_disks = 0
    /\ identify_result = NoResult
    /\ bitmask_temp = 0
    /\ values_page = "none"
    /\ cmdLog = <<>>
    /\ firstMask = Unset
    /\ moreThanExpected = FALSE
    /\ UnitIdle

\* jmraidstatus.c:677-720: the query as one step, by what it hands back.  Single
\* disk: jm_get_disk_smart_data fills the record of the disk and returns 0
\* (jm_commands.c:316-352).  All disks: jm_get_all_disks_smart_data fills the five
\* records, *num_disks and *is_degraded, and returns -1 when it found no disk
\* (jm_commands.c:354-487), on which main cleans up and returns 3.
VerdictQuery ==
    /\ MainRuns /\ prog = "main" /\ pc = "query"
    /\ IF disk_number >= 0
       THEN /\ \E r \in SweepRecords \ {EmptyRecord} :
                  disk_data' = [disk_data EXCEPT ![disk_number] = r]
            /\ num_disks' = 1
            /\ result' = "SUCCESS"
            /\ pc' = "finish"
            /\ UNCHANGED <<rc, is_degraded, moreThanExpected>>
       ELSE /\ \E recs \in [Slots -> SweepRecords], size \in {"less", "equal", "more"} :
                  LET found == Cardinality({s \in Slots : recs[s].is_present = 1})
                  IN  /\ disk_data' = recs
                      /\ num_disks' = found
                      /\ is_degraded' = IF size = "less" THEN 1 ELSE 0
                      /\ moreThanExpected' = (size = "more")
                      /\ IF found > 0
                         THEN result' = "SUCCESS" /\ pc' = "finish" /\ UNCHANGED rc
                         ELSE /\ result' = "NO_DISKS"
                              /\ pc' = "cl_entry"
                              /\ rc' = [code |-> 3, site |-> "sweep"]
    /\ UNCHANGED <<prog, opts, handle, backup_sector, globals, sigs, cmdVars, ctx, i, k,
                   exits, ioHist, clHist, registered, sigHist, sessions, wakeSeq,
                   frameVars, expected_array_size, disk_bitmask, bitmask_captured,
                   present_disks, identify_result, bitmask_temp, values_page, cmdLog,
                   firstMask, unitVars>>

\* jmraidstatus.c:779-792: the exit code from the records and from is_degraded,
\* then the call of jm_cleanup_device
MainExitCode ==
    /\ MainRuns /\ prog = "main" /\ pc = "finish"
    /\ rc' = [code |-> DegradedExitCode(determine_exit_code(disk_data)), site |-> "end"]
    /\ pc' = "cl_entry"
    /\ UNCHANGED <<prog, opts, handle, backup_sector, globals, sigs, cmdVars, ctx, i,
                   k, result, exits, ioHist, clHist, registered, sigHist, sessions,
                   wakeSeq, frameVars, sweepVars>>

NextVerdict ==
    \/ VerdictQuery
    \/ MainExitCode
    \/ CleanupEntry
    \/ CleanupCheck
    \/ RemoveHandler
    \/ RemoveFd
    \/ CleanupWrite
    \/ CleanupClose

SpecVerdict == InitVerdict /\ [][NextVerdict]_vars

----------------------------------------------------------------------------
\* Functions called on their own: smart_combine_data with assess_overall_health
\* and assess_attribute_health

MaxAttrs == 2        \* entries of a values page with more than one entry

\* smart_attributes.c:77-97: is_critical of the definition of the id in the
\* table at 12-75, 0 for an id the table does not have
is_critical_attribute(id) ==
    IF id \in {5, 10, 171, 172, 184, 187, 189, 196, 197, 198} THEN 1 ELSE 0

\* smart_parser.c:166-209: the entries with a non-zero id, parsed, in page
\* order; the threshold is that of the first entry of the thresholds page with
\* the id, else 0.  The raw values tried are below 2^32, so the mask applied to
\* Power_On_Hours (199-201) leaves them as they are.
ParsedAttributes(values, thresholds) ==
    LET kept == SelectSeq(values, LAMBDA e : e.id # 0)
        threshold(id) ==
            IF \E j \in 1..Len(thresholds) : thresholds[j].id = id
            THEN LET j == CHOOSE j \in 1..Len(thresholds) :
                             /\ thresholds[j].id = id
                             /\ \A h \in 1..(j - 1) : thresholds[h].id # id
                 IN  thresholds[j].threshold
            ELSE 0
    IN  [j \in 1..Len(kept) |->
            [id |-> kept[j].id,
             current_value |-> kept[j].current_value,
             threshold |-> threshold(kept[j].id),
             raw_value |-> kept[j].raw_value,
             is_critical |-> is_critical_attribute(kept[j].id),
             status |-> "UNKNOWN"]]

\* the temperature taken from the whole raw value
TemperatureOf_whole(raw) == raw

\* smart_parser.c:82: (uint8_t)attr->raw_value
TemperatureOf(raw) == raw % 256

\* smart_parser.c:57-124
assess_attribute_health(attr, cfg) ==
    IF /\ ~cfg.null
       /\ \E j \in 1..Len(cfg.attributes) :
             /\ cfg.attributes[j].id = attr.id
             /\ cfg.attributes[j].has_raw_critical # 0
             /\ attr.raw_value > cfg.attributes[j].raw_critical
    THEN "FAILED"
    ELSE IF attr.id \in {194, 190, 231}
    THEN LET temp_threshold == IF ~cfg.null /\ cfg.has_temp_critical # 0
                               THEN cfg.temp_critical ELSE 60
         IN  IF TemperatureOf(attr.raw_value) >= temp_threshold
             THEN "FAILED" ELSE "PASSED"
    ELSE IF /\ attr.is_critical # 0
            /\ \/ attr.id \in {5, 197, 198, 187, 184} /\ attr.raw_value > 0
               \/ attr.id = 10 /\ attr.raw_value > 0
               \/ attr.id = 196 /\ attr.raw_value > 0
    THEN "FAILED"
    ELSE IF /\ cfg.null \/ cfg.use_manufacturer_thresholds # 0
            /\ attr.threshold > 0 /\ attr.current_value <= attr.threshold
    THEN "FAILED"
    ELSE "PASSED"

\* assess_overall_health in which the last attribute decides
OverallAfter_last(ov, st) == IF st = "FAILED" THEN "FAILED" ELSE "PASSED"

\* smart_parser.c:138-140: overall after an attribute with status st
OverallAfter(ov, st) == IF st = "FAILED" THEN "FAILED" ELSE ov

\* every variable outside the called function at rest: no device is open
Detached ==
    /\ prog = "lib"
    /\ sector = 0 /\ disk_number = -1
    /\ fd = -1 /\ openFds = {}
    /\ backup_sector = <<>>
    /\ g_cleanup_fd = -1 /\ g_cleanup_sector = 0 /\ g_cleanup_done = 0
    /\ disp = [s \in Signals |-> "dfl"] /\ hstack = <<>>
    /\ cmd_counter = 1 /\ ctx = NoCtx /\ cmd_ctr = 0
    /\ phase = "none" /\ disks_found = 0
    /\ result = "none" /\ rc = [code |-> 0, site |-> "none"]
    /\ exitCode = -1 /\ exitHow = "running" /\ exitAt = "none"
    /\ lastWrite = "none" /\ lastCtr = 0 /\ readsSince = -1 /\ xchg = "none"
    /\ lbas = {}
    /\ nZeroMain = 0 /\ nZeroHandler = 0 /\ nClose = 0 /\ cleanupCalls = 0
    /\ registered = FALSE
    /\ sigSeen = 0 /\ firstSig = 0 /\ sigAt = "none" /\ cmdAfterSig = FALSE
    /\ sessions = 0
    /\ wakeSeq = <<>>
    /\ FrameIdle
    /\ expected_array_size = 0
    /\ disk_data = [s \in Slots |-> EmptyRecord]
    /\ disk_bitmask = 0
    /\ bitmask_captured = 0
    /\ is_degraded = 0
    /\ present_disks = Unset
    /\ num_disks = Unset
    /\ identify_result = NoResult
    /\ bitmask_temp = 0
    /\ values_page = "none"
    /\ cmdLog = <<>>
    /\ firstMask = Unset
    /\ moreThanExpected = FALSE

\* what the functions called on their own do not change
detachedFixed ==
    <<prog, opts, handle, backup_sector, globals, sigs, cmdVars, ctx, result, rc,
      exits, ioHist, clHist, registered, sigHist, sessions, wakeSeq, frameVars,
      expected_array_size, disk_data, disk_bitmask, bitmask_captured, is_degraded,
      present_disks, num_disks, identify_result, bitmask_temp, values_page, cmdLog,
      firstMask, moreThanExpected, k>>

\* jm_smart_read_values and jm_smart_read_thresholds: the copy of the page

ResponseLen == 512      \* uint8_t response[512]
PageOffset == 32        \* response + 0x20

\* smart_parser.h:71-95: sizeof of the packed page structures, member by member
PageSize(page) ==
    IF page = "values"
    THEN 2 + 30 * 12 + 1 + 1 + 2 + 1 + 1 + 2 + 1 + 1 + 1 + 1 + 1 + 11 + 125
    ELSE 2 + 30 * 12 + 149

\* jm_commands.c:281 with smart_parser.c:35-44, and jm_commands.c:313 with
\* smart_parser.c:46-55: memcpy reads sizeof(page) bytes from response + 0x20
SmartParsePage ==
    /\ pc \in {"sm_values", "sm_thresholds"}
    /\ LET n == PageSize(IF pc = "sm_values" THEN "values" ELSE "thresholds")
       IN  copied' = [first |-> PageOffset, last |-> PageOffset + n - 1, length |-> n]
    /\ loaded' = [ret |-> 0]
    /\ pc' = "sm_done"
    /\ UNCHANGED <<detachedFixed, i, config, smart_values, smart_thresholds, record,
                   overall, response, identity, json_status, report, buffer>>

----------------------------------------------------------------------------

\* jm_get_disk_identify: the check of the response and the strings taken from it.
\* Bytes are numbers 0..255; a buffer of n bytes is a sequence whose element
\* j + 1 is byte j.

\* jm_commands.c:55-79: dest[0..len] after ata_string_swap(dest, src, len)
ata_string_swap(src, len) ==
    LET swapped == [j \in 1..(len + 1) |->
                       IF j = len + 1 THEN 0
                       ELSE IF j % 2 = 1 THEN src[j + 1] ELSE src[j - 1]]
        \* 63-65: the spaces at the end become NULs
        keep == IF \E j \in 1..len : swapped[j] # 32
                THEN CHOOSE j \in 1..len :
                        swapped[j] # 32 /\ \A h \in (j + 1)..len : swapped[h] = 32
                ELSE 0
        trimmed == [j \in 1..(len + 1) |-> IF j > keep THEN 0 ELSE swapped[j]]
        \* 68-71: the spaces in front; the buffer ends with a NUL
        leading_spaces == (CHOOSE j \in 1..(len + 1) :
                              trimmed[j] # 32 /\ \A h \in 1..(j - 1) : trimmed[h] = 32) - 1
        new_len == len - leading_spaces
    IN  \* 72-77
        IF leading_spaces > 0
        THEN [j \in 1..(len + 1) |->
                 IF j - 1 <= new_len THEN trimmed[j + leading_spaces] ELSE trimmed[j]]
        ELSE trimmed

\* jm_commands.c:81-117: 1 if the response looks like a disk, else 0
validate_identify_response(resp) ==
    LET printable_count ==
            Cardinality({j \in 1..32 : resp.model[j] >= 32 /\ resp.model[j] < 127})
        total_non_space ==
            Cardinality({j \in 1..32 : /\ resp.model[j] >= 32 /\ resp.model[j] < 127
                                       /\ resp.model[j] # 32})
        first64 == resp.header \o resp.model \o resp.serial
        all_zero == \A j \in 1..64 : first64[j] = 0
        all_ff == \A j \in 1..64 : first64[j] = 255
    IN  IF printable_count < 8 \/ total_non_space < 5 THEN 0
        ELSE IF all_zero \/ all_ff THEN 0
        ELSE 1

\* jm_commands.c:178-217: after a response that passed the CRC check, -2 for an
\* empty slot, else the three strings and 0
IdentifyStrings ==
    /\ pc = "id_strings"
    /\ identity' =
          IF validate_identify_response(response) = 0
          THEN [ret |-> -2, model |-> <<>>, serial |-> <<>>, firmware |-> <<>>]
          ELSE [ret |-> 0,
                model |-> ata_string_swap(response.model, 32),
                serial |-> ata_string_swap(response.serial, 16),
                firmware |-> ata_string_swap(response.firmware, 8)]
    /\ pc' = "id_done"
    /\ UNCHANGED <<detachedFixed, i, config, smart_values, smart_thresholds, record,
                   overall, copied, response, json_status, report, buffer, loaded>>

\* format_json and the aggregator that reads its output

\* output_formatter.c:414-422: the overall_status printed for a disk
FormatJson ==
    /\ pc = "js_format"
    /\ json_status' = CASE record.overall_status = "PASSED" -> "healthy"
                        [] record.overall_status = "FAILED" -> "failed"
                        [] OTHER -> "error"
    /\ pc' = "js_parse"
    /\ UNCHANGED <<detachedFixed, i, config, smart_values, smart_thresholds, record,
                   overall, copied, response, identity, report, buffer, loaded>>

\* aggregator/disk_health.c:109-112 and 136-146: the disk object of the line
\* becomes a present disk whose status is read from the text
ParseDiskHealthLine ==
    /\ pc = "js_parse"
    /\ report' = [is_present |-> 1,
                  overall_status |-> IF json_status = "passed" THEN "PASSED"
                                     ELSE IF json_status = "failed" THEN "FAILED"
                                     ELSE "ERROR",
                  total_disks |-> 0, healthy_disks |-> 0, failed_disks |-> 0,
                  report_status |-> "none"]
    /\ pc' = "js_aggregate"
    /\ UNCHANGED <<detachedFixed, i, config, smart_values, smart_thresholds, record,
                   overall, copied, response, identity, json_status, buffer, loaded>>

\* aggregator/disk_health.c:174-196, for the one source with the one disk
AggregateSources ==
    /\ pc = "js_aggregate"
    /\ report' = [report EXCEPT
                     !.total_disks = 1,
                     !.healthy_disks = IF report.overall_status = "PASSED" THEN 1 ELSE 0,
                     !.failed_disks = IF report.overall_status = "PASSED" THEN 0 ELSE 1,
                     !.report_status = IF report.overall_status = "PASSED"
                                       THEN "PASSED" ELSE "FAILED"]
    /\ pc' = "js_done"
    /\ UNCHANGED <<detachedFixed, i, config, smart_values, smart_thresholds, record,
                   overall, copied, response, identity, json_status, buffer, loaded>>

\* config_load.  The text of the file is a sequence of lexemes, each the run of
\* characters one call of get_token consumes: a punctuation mark, a quoted
\* string, a number, a word, white space, or another character.

MaxMembers == 2      \* members of the top-level object of a document

\* the members a document is made of (the format is that of
\* config_write_default, config.c:39-79): text is what the file holds, kept
\* what remains of it when the unknown keys and their values are removed.
\* A lexeme has a kind and, for a string or a number, its value.
ConfigMembers ==
    LET lexeme(kind) == [kind |-> kind, str |-> "", num |-> 0]
        str(chars) == <<[kind |-> "string", str |-> chars, num |-> 0]>>
        num(n) == <<[kind |-> "number", str |-> "", num |-> n]>>
        member(key, value) == str(key) \o <<lexeme(":")>> \o value
        obj(members) == <<lexeme("{")>> \o members \o <<lexeme("}")>>
        comma == <<lexeme(","), lexeme("ws")>>
        manufacturer == member("use_manufacturer_thresholds", <<lexeme("false")>>)
        critical == member("critical", num(50))
        raw_critical == member("raw_critical", num(10))
        name == member("name", str("Reallocated"))
        temperature(members) == member("temperature", obj(members))
        attributes(members) == member("attributes", obj(member("0x05", obj(members))))
    IN  {[text |-> manufacturer, kept |-> manufacturer],
         [text |-> temperature(critical), kept |-> temperature(critical)],
         [text |-> attributes(raw_critical), kept |-> attributes(raw_critical)],
         [text |-> attributes(name \o comma \o raw_critical), kept |-> attributes(raw_critical)],
         [text |-> temperature(member("warning", num(45)) \o comma \o critical),
          kept |-> temperature(critical)],
         [text |-> member("comment", str("text")), kept |-> <<>>],
         [text |-> member("version", num(2)), kept |-> <<>>],
         [text |-> member("extra", obj(member("note", num(1)))), kept |-> <<>>]}

\* the documents: up to MaxMembers different members in any order
ConfigDocuments ==
    UNION {{d \in [1..n -> ConfigMembers] : \A a, b \in 1..n : a # b => d[a] # d[b]}
              : n \in 0..MaxMembers}

\* the text of a document, from the text of its members (which = "text") or
\* from what is kept of them (which = "kept")
ConfigText(d, which) ==
    LET lexeme(kind) == [kind |-> kind, str |-> "", num |-> 0]
        RECURSIVE join(_)
        join(from) ==
            IF from > Len(d) THEN <<>>
            ELSE LET rest == join(from + 1)
                     this == d[from][which]
                 IN  IF this = <<>> THEN rest
                     ELSE IF rest = <<>> THEN this
                     ELSE this \o <<lexeme(","), lexeme("ws")>> \o rest
    IN  <<lexeme("{"), lexeme("ws")>> \o join(1) \o <<lexeme("ws"), lexeme("}")>>

\* config.c:103-184: the token at position pos of the text, the position after
\* it, and what get_token returns
get_token(text, pos) ==
    LET start == CHOOSE p \in pos..(Len(text) + 1) :
                    /\ p > Len(text) \/ text[p].kind # "ws"
                    /\ \A q \in pos..(p - 1) : text[q].kind = "ws"
        tok(type, after, ret) ==
            [type |-> type, pos |-> after, ret |-> ret,
             string_value |-> IF type = "TOK_STRING" THEN text[start].str ELSE "",
             number_value |-> IF type = "TOK_NUMBER" THEN text[start].num ELSE 0,
             bool_value |-> IF type = "TOK_TRUE" THEN 1 ELSE 0]
    IN  IF start > Len(text) THEN tok("TOK_EOF", start, 0)
        ELSE CASE text[start].kind = "{" -> tok("TOK_LBRACE", start + 1, 0)
               [] text[start].kind = "}" -> tok("TOK_RBRACE", start + 1, 0)
               [] text[start].kind = "[" -> tok("TOK_LBRACKET", start + 1, 0)
               [] text[start].kind = "]" -> tok("TOK_RBRACKET", start + 1, 0)
               [] text[start].kind = ":" -> tok("TOK_COLON", start + 1, 0)
               [] text[start].kind = "," -> tok("TOK_COMMA", start + 1, 0)
               [] text[start].kind = "string" -> tok("TOK_STRING", start + 1, 0)
               [] text[start].kind = "number" -> tok("TOK_NUMBER", start + 1, 0)
               [] text[start].kind = "true" -> tok("TOK_TRUE", start + 1, 0)
               [] text[start].kind = "false" -> tok("TOK_FALSE", start + 1, 0)
               [] text[start].kind = "null" -> tok("TOK_NULL", start + 1, 0)
               [] OTHER -> tok("TOK_ERROR", start, -1)

\* config.c:213-328: one pass of the loop config_load is in (st.at), from the
\* position st.pos of the text
ConfigLoadStep(text, st) ==
    LET t1 == get_token(text, st.pos)
        t2 == get_token(text, t1.pos)
        t3 == get_token(text, t2.pos)
        stop(ret) == [st EXCEPT !.at = "return", !.ret = ret]
        go(at, pos) == [st EXCEPT !.at = at, !.pos = pos]
        \* 266-273 and 305-310: the number after the colon, if both are there
        number == t2.ret = 0 /\ t2.type = "TOK_COLON"
                    /\ t3.ret = 0 /\ t3.type = "TOK_NUMBER"
        after == IF t2.ret = 0 /\ t2.type = "TOK_COLON" THEN t3.pos ELSE t2.pos
    IN  CASE st.at = "open" ->          \* 213-217
               IF t1.ret # 0 \/ t1.type # "TOK_LBRACE" THEN stop(-1)
               ELSE go("object", t1.pos)
          [] st.at = "object" ->        \* 223-328
               IF t1.ret # 0 \/ t1.type = "TOK_RBRACE" THEN stop(0)
               ELSE IF t1.type = "TOK_COMMA" THEN go("object", t1.pos)
               ELSE IF t1.type # "TOK_STRING" THEN stop(-1)
               ELSE IF t2.ret # 0 \/ t2.type # "TOK_COLON" THEN stop(-1)
               ELSE IF t3.ret # 0 THEN stop(-1)
               ELSE IF t1.string_value = "use_manufacturer_thresholds"
               THEN IF t3.type \in {"TOK_TRUE", "TOK_FALSE"}
                    THEN [go("object", t3.pos) EXCEPT
                             !.use_manufacturer_thresholds = t3.bool_value]
                    ELSE go("object", t3.pos)
               ELSE IF t1.string_value = "temperature" /\ t3.type = "TOK_LBRACE"
               THEN go("temperature", t3.pos)
               ELSE IF t1.string_value = "attributes" /\ t3.type = "TOK_LBRACE"
               THEN go("attributes", t3.pos)
               ELSE go("object", t3.pos)
          [] st.at = "temperature" ->   \* 261-275
               IF t1.ret # 0 \/ t1.type = "TOK_RBRACE" THEN go("object", t1.pos)
               ELSE IF t1.type = "TOK_COMMA" THEN go("temperature", t1.pos)
               ELSE IF t1.type # "TOK_STRING" THEN go("object", t1.pos)
               ELSE IF t1.string_value = "critical"
               THEN IF number
                    THEN [go("temperature", after) EXCEPT
                             !.has_temp_critical = 1,
                             !.temp_critical = t3.number_value % 256]
                    ELSE go("temperature", after)
               ELSE go("temperature", t1.pos)
          [] st.at = "attributes" ->    \* 281-296
               IF t1.ret # 0 \/ t1.type = "TOK_RBRACE" THEN go("object", t1.pos)
               ELSE IF t1.type = "TOK_COMMA" THEN go("attributes", t1.pos)
               ELSE IF t1.type # "TOK_STRING" THEN go("object", t1.pos)
               ELSE IF t2.ret # 0 \/ t2.type # "TOK_COLON" THEN go("object", t2.pos)
               ELSE IF t3.ret # 0 \/ t3.type # "TOK_LBRACE" THEN go("object", t3.pos)
               ELSE [go("attribute", t3.pos) EXCEPT
                        !.attr_thresh =
                            [id |-> CASE t1.string_value = "0x05" -> 5     \* strtol, base 16
                                      [] t1.string_value = "0xC2" -> 194
                                      [] OTHER -> 0,
                             has_raw_critical |-> 0, raw_critical |-> 0]]
          [] st.at = "attribute" ->     \* 298-321
               IF t1.type = "TOK_COMMA" /\ t1.ret = 0 THEN go("attribute", t1.pos)
               ELSE IF t1.ret # 0 \/ t1.type # "TOK_STRING"
               THEN [go("attributes", t1.pos) EXCEPT
                        !.temp_attrs = IF Len(@) < 32 THEN Append(@, st.attr_thresh) ELSE @]
               ELSE IF t1.string_value = "raw_critical"
               THEN IF number
                    THEN [go("attribute", after) EXCEPT
                             !.attr_thresh.has_raw_critical = 1,
                             !.attr_thresh.raw_critical = t3.number_value]
                    ELSE go("attribute", after)
               ELSE go("attribute", after)

\* config.c:186-341: what config_load returns and the configuration it leaves,
\* for a file that could be read
RECURSIVE ConfigLoadFrom(_, _)
ConfigLoadFrom(text, st) ==
    IF st.at = "return"
    THEN [ret |-> st.ret, null |-> FALSE,
          attributes |-> IF st.ret = 0 THEN st.temp_attrs ELSE <<>>,
          has_temp_critical |-> st.has_temp_critical,
          temp_critical |-> st.temp_critical,
          use_manufacturer_thresholds |-> st.use_manufacturer_thresholds]
    ELSE ConfigLoadFrom(text, ConfigLoadStep(text, st))

config_load(text) ==
    ConfigLoadFrom(text,
        [at |-> "open", pos |-> 1, ret |-> 0,
         \* 21-29: config_init_default
         use_manufacturer_thresholds |-> 1, has_temp_critical |-> 0, temp_critical |-> 0,
         temp_attrs |-> <<>>,
         attr_thresh |-> [id |-> 0, has_raw_critical |-> 0, raw_critical |-> 0]])

\* the call of config_load
ConfigLoad ==
    /\ pc = "cf_load"
    /\ loaded' = config_load(buffer)
    /\ pc' = "cf_done"
    /\ UNCHANGED <<detachedFixed, i, config, smart_values, smart_thresholds, record,
                   overall, copied, response, identity, json_status, report, buffer>>

\* one call of one of the functions, with its arguments
InitCalls ==
    /\ Detached
    /\ i = 0 /\ k = 0
    /\ overall = "none"
    /\ copied = <<>>
    /\ identity = <<>>
    /\ json_status = "none"
    /\ report = <<>>
    /\ loaded = <<>>
    /\ \/ \* config_load of a file that holds one of the documents
          /\ pc = "cf_load"
          /\ buffer \in {ConfigText(d, "text") : d \in ConfigDocuments}
          /\ config = NoConfig
          /\ smart_values = <<>>
          /\ smart_thresholds = <<>>
          /\ record = <<>>
          /\ response = <<>>
       \/ \* format_json for one present disk, and the aggregator reading the line
          /\ pc = "js_format"
          /\ record \in [is_present : {1}, overall_status : {"PASSED", "FAILED", "ERROR"},
                          num_attributes : {0}, attributes : {<<>>}]
          /\ config = NoConfig
          /\ smart_values = <<>>
          /\ smart_thresholds = <<>>
          /\ response = <<>>
          /\ buffer = <<>>
       \/ \* jm_get_disk_identify after a response that passed the CRC check:
          \* the fields of the response are texts, byte-swapped in pairs as
          \* the controller sends them, padded to the length of the field
          /\ pc = "id_strings"
          /\ LET text == <<87, 68, 67, 32, 87, 68, 52, 48>>      \* WDC WD40
                 pad(t, byte, len) == t \o [j \in 1..(len - Len(t)) |-> byte]
                 wire(t) == [j \in 1..Len(t) |-> IF j % 2 = 1 THEN t[j + 1] ELSE t[j - 1]]
                 models == {pad(text, 32, 32),
                            pad(<<32, 32>> \o text, 32, 32),
                            pad(text, 0, 32),
                            pad(text \o <<32>>, 0, 32),
                            pad(text \o <<1>>, 32, 32),
                            pad(<<127>> \o text, 32, 32),
                            pad(<<>>, 0, 32),
                            pad(<<>>, 255, 32),
                            pad(<<65, 66, 67, 68>>, 32, 32),
                            pad(<<1, 2, 3, 4>> \o text, 0, 32)}
                 serials == {pad(<<83, 49>>, 32, 16), pad(<<>>, 255, 16),
                             pad(<<>>, 0, 16), pad(<<32, 83, 49, 32>>, 0, 16)}
                 firmwares == {pad(<<49, 46, 48>>, 32, 8), pad(<<32, 49>>, 0, 8),
                               pad(<<>>, 32, 8)}
             IN  response \in [header : {pad(<<>>, 0, 16), pad(<<>>, 255, 16)},
                               model : {wire(t) : t \in models},
                               serial : {wire(t) : t \in serials},
                               firmware : {wire(t) : t \in firmwares}]
          /\ config = NoConfig
          /\ smart_values = <<>>
          /\ smart_thresholds = <<>>
          /\ record = <<>>
          /\ buffer = <<>>
       \/ \* smart_combine_data for a present disk: the values page, the thresholds
          \* page, and the configuration smart_set_config installed (or none)
          /\ pc = "sp_combine"
          /\ LET \* vacant, the ids the rules name, a critical id no rule names
                 \* (0xAB), an id that is not critical (0x09)
                 ids == <<5, 9, 10, 171, 184, 187, 190, 194, 196, 197, 198, 231>>
                 \* 306 = 0x132 has the low byte 50
                 entries == [id : {0} \cup {ids[j] : j \in 1..Len(ids)},
                             current_value : {10, 100},
                             raw_value : {0, 5, 11, 50, 60, 306}]
                 small == {[id |-> 0, current_value |-> 100, raw_value |-> 5],
                           [id |-> 5, current_value |-> 100, raw_value |-> 0],
                           [id |-> 5, current_value |-> 100, raw_value |-> 5],
                           [id |-> 194, current_value |-> 100, raw_value |-> 60],
                           [id |-> 9, current_value |-> 10, raw_value |-> 11]}
                 cutoffs == {<<>>,
                             <<[id |-> 5, has_raw_critical |-> 1, raw_critical |-> 10]>>,
                             <<[id |-> 9, has_raw_critical |-> 1, raw_critical |-> 0]>>,
                             <<[id |-> 5, has_raw_critical |-> 0, raw_critical |-> 0],
                               [id |-> 194, has_raw_critical |-> 1, raw_critical |-> 59]>>}
             IN  /\ smart_values \in
                       {<<e>> : e \in entries}
                          \cup UNION {[1..n -> small] : n \in 0..MaxAttrs}
                 \* all thresholds zero, 10 for every id, and two entries for
                 \* id 0x09 of which the first is 0
                 /\ smart_thresholds \in
                       {<<>>,
                        [j \in 1..Len(ids) |-> [id |-> ids[j], threshold |-> 10]],
                        <<[id |-> 9, threshold |-> 0], [id |-> 9, threshold |-> 10]>>}
                 /\ config \in
                       {NoConfig}
                          \cup [null : {FALSE}, attributes : cutoffs,
                                has_temp_critical : {0, 1}, temp_critical : {50},
                                use_manufacturer_thresholds : {0, 1}]
          /\ record = <<>>
          /\ response = <<>>
          /\ buffer = <<>>
       \/ \* jm_smart_read_values or jm_smart_read_thresholds after a response
          \* that passed the CRC check was read
          /\ pc \in {"sm_values", "sm_thresholds"}
          /\ config = NoConfig
          /\ smart_values = <<>>
          /\ smart_thresholds = <<>>
          /\ record = <<>>
          /\ response = <<>>
          /\ buffer = <<>>

\* smart_parser.c:156-216 and 219 with 127-131: the record is cleared and
\* marked present, the attributes are parsed, a record without attributes gets
\* the error status; then assess_overall_health starts on the present record
CombineData ==
    /\ pc = "sp_combine"
    /\ LET attrs == ParsedAttributes(smart_values, smart_thresholds)
       IN  record' = [is_present |-> 1,
                      num_attributes |-> Len(attrs),
                      overall_status |-> IF Len(attrs) = 0 THEN "ERROR" ELSE "PASSED",
                      attributes |-> attrs]
    /\ overall' = "PASSED"
    /\ i' = 0
    /\ pc' = "sp_assess"
    /\ UNCHANGED <<detachedFixed, copied, response, identity, json_status, report,
                 buffer, loaded, config, smart_values, smart_thresholds>>

\* smart_parser.c:134-141: one pass of the loop
AssessAttribute ==
    /\ pc = "sp_assess" /\ i < record.num_attributes
    /\ LET attr_status == assess_attribute_health(record.attributes[i + 1], config)
       IN  /\ record' = [record EXCEPT !.attributes[i + 1].status = attr_status]
           /\ overall' = OverallAfter(overall, attr_status)
    /\ i' = i + 1
    /\ UNCHANGED <<detachedFixed, copied, response, identity, json_status, report,
                 buffer, loaded, pc, config, smart_values, smart_thresholds>>

\* smart_parser.c:143-144 and 221
AssessDone ==
    /\ pc = "sp_assess" /\ i >= record.num_attributes
    /\ record' = [record EXCEPT !.overall_status = overall]
    /\ pc' = "sp_done"
    /\ UNCHANGED <<detachedFixed, copied, response, identity, json_status, report,
                 buffer, loaded, i, config, smart_values, smart_thresholds, overall>>

NextCalls ==
    \/ CombineData
    \/ AssessAttribute
    \/ AssessDone
    \/ SmartParsePage
    \/ IdentifyStrings
    \/ FormatJson
    \/ ParseDiskHealthLine
    \/ AggregateSources
    \/ ConfigLoad

SpecCalls == InitCalls /\ [][NextCalls]_vars

----------------------------------------------------------------------------
\* Properties

\* the process has ended
Exited == exitHow # "running"

\* the pre-run read was made and returned a non-zero byte
PreReadNonZero ==
    /\ prog = "main"
    /\ backup_sector # <<>>
    /\ \E j \in 1..Len(backup_sector) : backup_sector[j] # 0

\* C1: when the pre-run read of the mailbox sector holds a non-zero byte, main
\* gets no further than the emptiness check, returns 3 from it, and no WRITE
\* (wakeup frame, command frame, zero sector) is issued in the run.
C1_UnsafeSectorRefused ==
    PreReadNonZero =>
        /\ pc \in {"check", "exited"}
        /\ lastWrite = "none"
        /\ lbas = {}
        /\ nZeroMain = 0 /\ nZeroHandler = 0
        /\ ~registered
        /\ (exitHow = "return" => exitCode = 3 /\ exitAt = "unsafe")

\* C1 witness: the first byte read is zero, a later one is not, and main has returned
C1_Witness ==
    /\ PreReadNonZero
    /\ backup_sector[1] = 0
    /\ pc = "exited" /\ exitAt = "unsafe" /\ exitCode = 3

\* the safe set as the interface states it: {33} and 64..2047
InSafeSet(s) == s = 33 \/ (64 <= s /\ s <= 2047)

\* C2: for a mailbox LBA outside {33} and 64..2047 main returns 3 from the range
\* check, having opened no device and issued no read or write; for an LBA inside
\* the set the range check passes.
C2_SafeRangeGate ==
    (prog = "main" /\ pc # "start" /\ exitAt # "parse") =>
        IF InSafeSet(sector)
        THEN exitAt # "range"
        ELSE /\ pc = "exited" /\ exitHow = "return"
             /\ exitCode = 3 /\ exitAt = "range"
             /\ fd = -1 /\ openFds = {} /\ sessions = 0
             /\ backup_sector = <<>>
             /\ lastWrite = "none" /\ readsSince = -1 /\ lbas = {}

\* C2 witness: the first sector past the safe range is refused
C2_Witness ==
    /\ prog = "main" /\ sector = 2048
    /\ pc = "exited" /\ exitAt = "range" /\ exitCode = 3

\* C3 (as claimed): in a run of main, a signal received after the handlers
\* were registered and before jm_cleanup_device completed ends the process only
\* after a zero-sector WRITE was issued.
C3_SignalForcesZeroWrite ==
    (prog = "main" /\ Exited /\ exitAt = "signal"
       /\ sigAt \in {"window", "between"}) =>
        nZeroMain + nZeroHandler > 0

\* C4: one terminate-class signal that arrives between two commands of an awake
\* session: exactly one zero-sector WRITE is issued, by the handler, to the
\* mailbox LBA; no command frame is written after the signal; the process ends
\* by _exit(128 + signum).
C4_SignalBetweenCommands ==
    /\ (sigAt = "between" => ~cmdAfterSig)
    /\ (Exited /\ sigSeen = 1 /\ sigAt = "between") =>
          /\ nZeroHandler = 1 /\ nZeroMain = 0
          /\ lastWrite = "zero"
          /\ g_cleanup_sector = sector /\ lbas = {sector}
          /\ exitHow = "_exit"
          /\ exitCode = 128 + firstSig

\* C4 witness: main was between two commands when SIGTERM arrived, and has exited
C4_Witness ==
    /\ prog = "main" /\ sigSeen = 1 /\ sigAt = "between" /\ firstSig = SIGTERM
    /\ pc = "cmd_build" /\ lastCtr >= 1
    /\ exitHow = "_exit" /\ exitCode = 143 /\ nZeroHandler = 1

\* C5: in a session the signal handler writes the zero sector at most once,
\* whatever signals arrive and wherever they interrupt.
C5_HandlerWritesOnce == nZeroHandler <= 1

\* C5 witness: a second signal interrupted the handler after its write
C5_Witness ==
    /\ nZeroHandler = 1 /\ sigSeen = 2 /\ Len(hstack) = 2
    /\ hstack[1].hpc = "h_exit"

\* C6: a call of jm_cleanup_device that follows a completed call with the same
\* handle and sector returns success, issues no WRITE and closes nothing.
C6_CleanupIdempotent ==
    /\ [](cleanupCalls >= 2 =>
            /\ pc \notin {"rm_signal", "rm_fd", "cl_write", "cl_close"}
            /\ (pc = "lib_closed" => result = "SUCCESS"))
    /\ [][(cleanupCalls >= 2 /\ cleanupCalls' >= 2) =>
            /\ nZeroMain' = nZeroMain
            /\ nClose' = nClose
            /\ openFds' = openFds
            /\ lastWrite' = lastWrite]_vars

\* C6 witness: the first call wrote the zero sector and closed the handle, the
\* second call has returned
C6_Witness ==
    /\ cleanupCalls = 2 /\ pc = "lib_closed"
    /\ nZeroMain = 1 /\ nClose = 1 /\ result = "SUCCESS"

\* C7 (as claimed): once the first call of jm_cleanup_device on an open session
\* has returned, the zero sector was written, the handlers are removed and the
\* handle is closed, whether or not the handlers had been registered.
C7_FirstCleanupCloses ==
    (cleanupCalls = 1 /\ fd >= 0 /\ ~(exitAt = "signal")
       /\ pc \in {"lib_closed", "exited"}) =>
        /\ nZeroMain = 1 /\ lastWrite = "zero"
        /\ fd \notin openFds
        /\ \A s \in Signals : disp[s] = "dfl"
        /\ g_cleanup_fd = -1

\* C8 (as claimed): the counter advances once per transmitted command frame:
\* between commands it is one more than the counter of the last frame
\* transmitted (1 when none was), and a frame about to be written carries the
\* successor of the last one transmitted.
C8_CounterPerTransmittedFrame ==
    /\ (pc = "cmd_build" /\ sessions = 1) => cmd_counter = lastCtr + 1
    /\ (pc = "cmd_write" /\ lastCtr > 0) => cmd_ctr = lastCtr + 1

\* C9 (as claimed): the first command frame of every session carries counter 1,
\* also in a session opened after an earlier one was closed (no other handle
\* is open).
C9_FirstFrameCarriesOne ==
    (pc = "cmd_write" /\ xchg = "none" /\ openFds = {fd}) => cmd_ctr = 1

\* C10 (as claimed): when a command frame is about to be written after an
\* earlier one, exactly one READ was issued since that earlier WRITE, it
\* completed and its CRC was checked.
C10_ReadVerifiedBeforeNextWrite ==
    (pc = "cmd_write" /\ readsSince >= 0) =>
        /\ readsSince = 1
        /\ xchg \in {"verified", "crc_mismatch"}

\* C10 (amended): no pipelining: when a command frame is about to be written
\* after an earlier one, the earlier exchange is over; at most one READ was
\* issued since the earlier WRITE, exactly one if that WRITE succeeded, and the
\* CRC of the response was checked if that READ succeeded.
C10_NoPipelining ==
    (pc = "cmd_write" /\ readsSince >= 0) =>
        /\ xchg \in {"write_failed", "read_failed", "verified", "crc_mismatch"}
        /\ readsSince = IF xchg = "write_failed" THEN 0 ELSE 1

\* C10 witness: the second command is about to be written after a verified response
C10_Witness ==
    /\ pc = "cmd_write" /\ cmd_ctr = 2 /\ lastCtr = 1
    /\ readsSince = 1 /\ xchg = "verified"

\* the word-1 constants of the wakeup sequence as the interface gives them:
\* 0x3C75A80B, 0x0388E337, 0x689705F3, 0xE00C523A
WakeupOrder ==
    << <<15477, 43019>>, <<904, 58167>>, <<26775, 1523>>, <<57356, 21050>> >>

\* a command frame has been built or written in this session
CommandIssued ==
    \/ lastWrite = "cmd"
    \/ xchg # "none"
    \/ pc \in {"cmd_build", "cmd_write", "cmd_read", "cmd_verify", "cmd_done"}

\* C11: Closed -> Opened -> Awake -> Closed: a command frame is built or written
\* only after the four wakeup frames of the session were all written with
\* success, in the order 0x3C75A80B, 0x0388E337, 0x689705F3, 0xE00C523A; while
\* the wakeup is incomplete no command was issued; and once a wakeup write of
\* main has failed, main issues no command and goes to cleanup and exit.
C11_WakeupBeforeCommands ==
    /\ CommandIssued => wakeSeq = WakeupOrder
    /\ (fd >= 0 /\ wakeSeq # WakeupOrder) =>
          /\ lastWrite \in {"none", "wakeup", "zero"}
          /\ readsSince = -1 /\ lastCtr = 0
    /\ (prog = "main" /\ rc.site = "wakeup") =>
          /\ Len(wakeSeq) < NumWakeup
          /\ ~CommandIssued
          /\ pc \in {"cl_entry", "cl_check", "rm_signal", "rm_fd", "cl_write",
                      "cl_close", "exited"}

\* C11 witness: the second command frame of a session is being written after a
\* complete wakeup
C11_Witness ==
    /\ pc = "cmd_write" /\ cmd_ctr = 2 /\ lastCtr = 1
    /\ wakeSeq = WakeupOrder

\* the frame buffers that hold a frame in the current state
FramesAtHand == {f \in {cmd_buf, media, resp_buf, plain} : f # <<>>}

\* the response now in resp_buf has been unscrambled
ResponseDecoded ==
    /\ pc \in {"f_verify", "f_done"}
    /\ xchg \in {"read", "verified", "crc_mismatch"}

\* C12: jm_execute_command returns CRC_MISMATCH exactly when the CRC over all
\* words but the last of the unscrambled response differs from the last word,
\* which is the case for every response with a flipped bit and for no
\* well-formed one; and an exchange that follows a mismatch is built with the
\* next counter, CRC-stamped, scrambled, written, read and judged by the same
\* rule.
C12_CrcMismatchReported ==
    /\ (pc = "f_done" /\ xchg \in {"verified", "crc_mismatch"}) =>
          /\ (result = "CRC_MISMATCH") <=>
                (JM_CRC(resp_buf, FrameWords - 1) # resp_buf[FrameWords])
          /\ (result = "SUCCESS") <=> ~tampered
          /\ result \in {"SUCCESS", "CRC_MISMATCH"}
    /\ (prevResult = "CRC_MISMATCH" /\ pc = "f_dev") =>
          /\ plain[1] = <<6523, 802>>
          /\ plain[2] = <<0, cmd_ctr>> /\ cmd_ctr = lastCtr
          /\ media[FrameWords] = WordXor(JM_CRC(plain, FrameWords - 1),
                                         SATA_XOR_MASK[FrameWords])

\* C12 witness: the exchange after a CRC mismatch was verified with success
C12_Witness ==
    /\ prevResult = "CRC_MISMATCH"
    /\ pc = "f_done" /\ xchg = "verified" /\ result = "SUCCESS"
    /\ cmd_ctr = 2

\* C13: the frame written to the sector is the scrambled form of the frame with
\* its CRC stamped (CRC first, scrambler second, WRITE third); the response is
\* unscrambled before its CRC is verified, so that a frame read back as written
\* decodes to the magic, counter and payload it was built from, with a matching
\* CRC, and is accepted.
C13_FrameRoundTrip ==
    /\ pc = "f_write" => cmd_buf = SATA_XOR(StampCrc(plain))
    /\ pc = "f_dev" =>
          /\ media = SATA_XOR(StampCrc(plain))
          /\ media # StampCrc(plain)
    /\ (ResponseDecoded /\ media = SATA_XOR(StampCrc(plain))) =>
          /\ resp_buf[1] = <<6523, 802>>
          /\ resp_buf[2] = <<0, cmd_ctr>>
          /\ \A j \in 1..(FrameWords - 1) : resp_buf[j] = plain[j]
          /\ resp_buf[FrameWords] = JM_CRC(resp_buf, FrameWords - 1)
          /\ (pc = "f_done" => result = "SUCCESS")

\* C13 witness: the frame came back as written and was accepted
C13_Witness ==
    /\ pc = "f_done" /\ xchg = "verified" /\ result = "SUCCESS"
    /\ media = SATA_XOR(StampCrc(plain))
    /\ resp_buf = StampCrc(plain)

\* C14: for every frame, scrambling twice restores it and scrambling once
\* changes it.
C14_ScramblerInvolution ==
    \A f \in FramesAtHand :
        /\ SATA_XOR(SATA_XOR(f)) = f
        /\ SATA_XOR(f) # f

\* C14 witness: a scrambled command frame and an unscrambled response are at hand
C14_Witness ==
    /\ pc = "f_verify"
    /\ Cardinality(FramesAtHand) >= 3
    /\ cmd_buf = SATA_XOR(StampCrc(plain))

InSweep == pc \in {"sw_loop", "sw_values", "sw_thresholds", "sw_done"} /\ ctx # NoCtx

\* the commands issued for slot s, in order
LogOfSlot(s) == SelectSeq(cmdLog, LAMBDA e : e[2] = s)

\* C16: the commands of a sweep are issued slot by slot in ascending order; for
\* each slot the first is IDENTIFY, SMART READ VALUES follows exactly when
\* IDENTIFY returned a present disk, SMART READ THRESHOLDS follows exactly when
\* the values were read; every slot the loop has passed was sent its IDENTIFY,
\* whatever happened in the slots before it, and a finished sweep has passed all
\* five.
C16_SweepOrder ==
    InSweep =>
        /\ \A j \in 1..(Len(cmdLog) - 1) : cmdLog[j][2] <= cmdLog[j + 1][2]
        /\ (pc = "sw_done") => i = NumSlots
        /\ \A s \in Slots :
              LET l == LogOfSlot(s)
                  passed == s < i
              IN  /\ Len(l) <= 3
                  /\ passed => Len(l) >= 1
                  /\ (s > i) => Len(l) = 0
                  /\ (Len(l) >= 1) => l[1][1] = "identify"
                  /\ (Len(l) >= 2) => l[2][1] = "values" /\ l[1][3] = 0
                  /\ (Len(l) >= 3) => l[3][1] = "thresholds" /\ l[2][3] = 0
                  /\ (passed /\ l[1][3] = 0) => Len(l) >= 2
                  /\ (passed /\ Len(l) >= 2 /\ l[2][3] = 0) => Len(l) = 3

\* C16 witness: IDENTIFY of slot 0 failed on the transport, slot 1 was empty, the
\* values of slot 2 and the thresholds of slot 3 could not be read, and slot 4
\* has been identified
C16_Witness ==
    /\ pc = "sw_values" /\ i = 4
    /\ cmdLog = << <<"identify", 0, -1>>, <<"identify", 1, -2>>,
                   <<"identify", 2, 0>>, <<"values", 2, -1>>,
                   <<"identify", 3, 0>>, <<"values", 3, 0>>, <<"thresholds", 3, -1>>,
                   <<"identify", 4, 0>> >>

\* C17: when SMART READ VALUES fails for a slot whose IDENTIFY found a disk, no
\* SMART READ THRESHOLDS is issued for the slot, the record of the slot is
\* present with status error and no attributes, and the disk is counted: the
\* count is the number of records marked present, it is what the sweep reports
\* in *num_disks, and a sweep with a count above zero returns success.
C17_ValuesFailureKeepsDisk ==
    InSweep =>
        /\ \A s \in Slots :
              LET l == LogOfSlot(s)
              IN  (Len(l) >= 2 /\ l[2][3] # 0) =>
                     /\ l[1] = <<"identify", s, 0>>
                     /\ Len(l) = 2
                     /\ s < i
                     /\ disk_data[s].is_present = 1
                     /\ disk_data[s].overall_status = "ERROR"
                     /\ disk_data[s].num_attributes = 0
                     /\ disks_found >= 1
        /\ disks_found = Cardinality({s \in Slots : s < i /\ disk_data[s].is_present = 1})
        /\ (pc = "sw_done") =>
              /\ num_disks = disks_found
              /\ (result = "SUCCESS") <=> (num_disks > 0)

\* C17 witness: a finished sweep whose only disk, in slot 0, had unreadable values
C17_Witness ==
    /\ pc = "sw_done" /\ result = "SUCCESS" /\ num_disks = 1
    /\ LogOfSlot(0) = << <<"identify", 0, 0>>, <<"values", 0, -1>> >>
    /\ disk_data[0].is_present = 1 /\ disk_data[0].overall_status = "ERROR"
    /\ \A s \in 1..(NumSlots - 1) : disk_data[s].is_present = 0

\* C18 (as claimed): a CRC mismatch on the SMART READ THRESHOLDS command of a slot
\* leaves the record of that slot with status error.
C18_ThresholdsCrcMarksError ==
    (InSweep /\ pc = "sw_loop" /\ phase = "thresholds" /\ result = "CRC_MISMATCH") =>
        disk_data[i - 1].overall_status = "ERROR"

\* C18 (amended): a failed SMART READ THRESHOLDS command, a CRC mismatch
\* included, never gives the record the status error: the record is present,
\* carries the attributes of the values page, and has the status the health
\* rules give with all thresholds zero, failed for a critical attribute with a
\* non-zero raw value and passed otherwise; the disk is counted and every later
\* slot the loop has passed was sent its IDENTIFY.
C18_ThresholdsFailureUsesDefaults ==
    InSweep =>
        /\ (pc = "sw_loop" /\ phase = "thresholds" /\ result # "SUCCESS") =>
              /\ cmdLog[Len(cmdLog)] = <<"thresholds", i - 1, -1>>
              /\ disk_data[i - 1].is_present = 1
              /\ disk_data[i - 1].num_attributes >= 1
              /\ disk_data[i - 1].overall_status =
                    (IF values_page = "critical_raw" THEN "FAILED" ELSE "PASSED")
        /\ \A s \in Slots :
              LET l == LogOfSlot(s)
              IN  (Len(l) = 3 /\ l[3][3] # 0) =>
                     /\ s < i
                     /\ disk_data[s].is_present = 1
                     /\ disk_data[s].overall_status \in {"PASSED", "FAILED"}
                     /\ disks_found >= 1
                     /\ \A t \in (s + 1)..(i - 1) : Len(LogOfSlot(t)) >= 1
                     /\ (pc = "sw_done") => i = NumSlots

\* C18 witness: the thresholds of slot 0 could not be read, the sweep went on to
\* slot 1, whose thresholds command has just ended in a CRC mismatch; its values
\* page would fail against the thresholds of the disk, the record is passed
C18_Witness ==
    /\ pc = "sw_loop" /\ phase = "thresholds" /\ result = "CRC_MISMATCH" /\ i = 2
    /\ LogOfSlot(0) = << <<"identify", 0, 0>>, <<"values", 0, 0>>,
                        <<"thresholds", 0, -1>> >>
    /\ values_page = "below_threshold"
    /\ disk_data[1].is_present = 1 /\ disk_data[1].overall_status = "PASSED"
    /\ disks_found = 2

\* C19: the bitmask is captured exactly when some IDENTIFY of the sweep returned
\* 0 or -2, that is, passed the CRC check; the captured value is byte 0x1F0 of the
\* first such response and stays so while later responses arrive; before that the
\* bitmask is 0, and an IDENTIFY that failed leaves no bitmask behind.
C19_BitmaskLatchedOnce ==
    InSweep =>
        /\ (bitmask_captured = 1) <=>
              (\E j \in 1..Len(cmdLog) :
                  cmdLog[j][1] = "identify" /\ cmdLog[j][3] \in {0, -2})
        /\ (bitmask_captured = 1) => disk_bitmask = firstMask /\ firstMask \in Bitmasks
        /\ (bitmask_captured = 0) => disk_bitmask = 0 /\ firstMask = Unset
        /\ (identify_result = -1) => bitmask_temp = 0

\* C19 witness: IDENTIFY of slot 0 failed, slot 1 was empty and supplied the
\* bitmask, and the response for slot 2 has arrived with another value
C19_Witness ==
    /\ pc = "sw_values" /\ i = 2 /\ identify_result = 0
    /\ cmdLog = << <<"identify", 0, -1>>, <<"identify", 1, -2>>, <<"identify", 2, 0>> >>
    /\ bitmask_captured = 1
    /\ disk_bitmask = 1 /\ bitmask_temp = 131

\* the number of bits set among the low 8 bits of m
PopLow8(m) ==
    LET bit(b) == (m \div (2 ^ b)) % 2
    IN  bit(0) + bit(1) + bit(2) + bit(3) + bit(4) + bit(5) + bit(6) + bit(7)

\* C20 (as claimed): after a sweep in which a bitmask was captured, present_disks
\* is the number of bits set in the low 8 bits of the bitmask; with an expected
\* size E >= 1 the array is reported degraded exactly when present_disks < E and
\* as larger than expected exactly when present_disks > E; without an expected
\* size it is never reported degraded.
C20_PresentDisksFromBitmask ==
    (pc = "sw_done" /\ ctx # NoCtx) =>
        /\ (bitmask_captured = 1) =>
              /\ present_disks = PopLow8(disk_bitmask)
              /\ (expected_array_size >= 1) =>
                    /\ (is_degraded = 1) <=> (present_disks < expected_array_size)
                    /\ moreThanExpected <=> (present_disks > expected_array_size)
        /\ (expected_array_size = 0) => is_degraded = 0

\* some record of disk_data is marked present and has the given status
SomeDisk(status) ==
    \E s \in Slots : disk_data[s].is_present # 0 /\ disk_data[s].overall_status = status

\* main has returned from its last return statement
ReturnedFromEnd == prog = "main" /\ pc = "exited" /\ exitHow = "return" /\ exitAt = "end"

\* C21: when main returns after the query, the exit code is 1 whenever a present
\* disk has the status failed or the array was found degraded; an array with
\* more disks than expected, no failed disk and no degradation gives 0.
C21_VerdictMonotone ==
    ReturnedFromEnd =>
        /\ (SomeDisk("FAILED") \/ is_degraded = 1) => exitCode = 1
        /\ (moreThanExpected /\ ~SomeDisk("FAILED") /\ is_degraded = 0) => exitCode = 0

\* C21 witness: a degraded array whose three disks all passed ends with code 1
C21_Witness ==
    /\ ReturnedFromEnd /\ disk_number = -1
    /\ is_degraded = 1 /\ num_disks = 3
    /\ ~SomeDisk("FAILED") /\ ~SomeDisk("ERROR")
    /\ exitCode = 1

\* C22 (as claimed): main returns 0 only if every present disk has the status
\* passed and the array is not degraded.
C22_ZeroOnlyIfAllPassed ==
    (ReturnedFromEnd /\ exitCode = 0) =>
        /\ \A s \in Slots :
              disk_data[s].is_present # 0 => disk_data[s].overall_status = "PASSED"
        /\ is_degraded = 0

----------------------------------------------------------------------------
\* Health rules

\* the ordered rule list of the per-attribute assessment: each rule is
\* <<does it match, what it gives>>
HealthRules(attr, cfg) ==
    LET cutoffs == IF cfg.null THEN {}
                   ELSE {cfg.attributes[j].raw_critical :
                           j \in {h \in 1..Len(cfg.attributes) :
                                    /\ cfg.attributes[h].id = attr.id
                                    /\ cfg.attributes[h].has_raw_critical # 0}}
        celsius_cutoff == IF ~cfg.null /\ cfg.has_temp_critical # 0
                          THEN cfg.temp_critical ELSE 60
        low_byte == attr.raw_value - 256 * (attr.raw_value \div 256)
        manufacturer == cfg.null \/ cfg.use_manufacturer_thresholds # 0
    IN  << <<\E c \in cutoffs : attr.raw_value > c, "FAILED">>,
           <<attr.id \in {194, 190, 231},
             IF low_byte >= celsius_cutoff THEN "FAILED" ELSE "PASSED">>,
           <<attr.id \in {5, 197, 198, 187, 184} /\ attr.raw_value > 0, "FAILED">>,
           <<attr.id = 10 /\ attr.raw_value > 0, "FAILED">>,
           <<attr.id = 196 /\ attr.raw_value > 0, "FAILED">>,
           <<manufacturer /\ attr.threshold > 0 /\ attr.current_value <= attr.threshold,
             "FAILED">>,
           <<TRUE, "PASSED">> >>

\* what the first matching rule gives
FirstMatchingRule(attr, cfg) ==
    LET rules == HealthRules(attr, cfg)
        first == CHOOSE n \in 1..Len(rules) :
                    rules[n][1] /\ \A h \in 1..(n - 1) : ~rules[h][1]
    IN  rules[first][2]

\* the attributes assessed so far
Assessed == IF pc = "sp_done" THEN 1..record.num_attributes
            ELSE IF pc = "sp_assess" THEN 1..i ELSE {}

\* C23: for every parsed attribute and every threshold configuration the
\* status assess_attribute_health gives is what the first matching rule of
\* the ordered list gives: configured raw cutoff exceeded, temperature ids by
\* the low raw byte against the configured cutoff or 60 and nothing after it,
\* the critical ids with a raw value above 0, the manufacturer threshold when
\* enabled, otherwise passed.
C23_FirstMatchingRule ==
    \A j \in Assessed :
        record.attributes[j].status = FirstMatchingRule(record.attributes[j], config)

\* a temperature attribute of raw value 0x132, assessed without configuration:
\* its low byte 50 is below 60, and its current value at its manufacturer
\* threshold does not fail it
C23_Witness ==
    /\ pc = "sp_done"
    /\ config.null
    /\ record.num_attributes = 1
    /\ record.attributes[1].id = 194
    /\ record.attributes[1].raw_value = 306
    /\ record.attributes[1].threshold = 10
    /\ record.attributes[1].current_value = 10
    /\ record.attributes[1].status = "PASSED"

\* C24: when the health engine has assessed a present disk record, every
\* attribute holds the status assessed for it, and the verdict of the disk is
\* failed exactly when at least one attribute is failed and passed otherwise.
C24_VerdictFromAttributes ==
    pc = "sp_done" /\ record.is_present # 0 =>
        /\ \A j \in 1..record.num_attributes :
              record.attributes[j].status
                  = assess_attribute_health(record.attributes[j], config)
        /\ record.overall_status = "FAILED"
              <=> \E j \in 1..record.num_attributes :
                      record.attributes[j].status = "FAILED"
        /\ record.overall_status \in {"FAILED", "PASSED"}

\* a record whose first attribute failed and whose second passed
C24_Witness ==
    /\ pc = "sp_done"
    /\ record.num_attributes = 2
    /\ record.attributes[1].status = "FAILED"
    /\ record.attributes[2].status = "PASSED"
    /\ record.overall_status = "FAILED"

\* C28: a values page without a non-vacant attribute gives a record whose
\* overall status is error.
C28_EmptyPageIsError ==
    pc = "sp_done" /\ record.num_attributes = 0 => record.overall_status = "ERROR"

\* C30: every byte the copy of a SMART page reads lies inside the response
\* buffer: the offset of the page plus the length copied is at most 512.
C30_CopyInsideResponse ==
    pc = "sm_done" =>
        /\ copied.first >= 0
        /\ copied.first + copied.length <= ResponseLen
        /\ copied.last < ResponseLen

\* the C string in a buffer: the bytes before the first NUL
StringIn(buf) ==
    LET nul == CHOOSE j \in 1..Len(buf) : buf[j] = 0 /\ \A h \in 1..(j - 1) : buf[h] # 0
    IN  SubSeq(buf, 1, nul - 1)

\* no space in front, none at the end, only bytes 0x20..0x7E
CleanString(str) ==
    /\ Len(str) > 0 => str[1] # 32 /\ str[Len(str)] # 32
    /\ \A j \in 1..Len(str) : str[j] >= 32 /\ str[j] <= 126

\* C25: for every response that identify accepts as a present disk, the
\* model, serial and firmware strings it returns have no leading space, no
\* trailing space and no byte outside 0x20..0x7E.
C25_IdentifyStringsClean ==
    pc = "id_done" /\ identity.ret = 0 =>
        /\ CleanString(StringIn(identity.model))
        /\ CleanString(StringIn(identity.serial))
        /\ CleanString(StringIn(identity.firmware))

\* what does hold: a field made of printable bytes only comes back without
\* spaces around it
C25_PrintableFieldsClean ==
    pc = "id_done" /\ identity.ret = 0 =>
        /\ (\A j \in 1..32 : response.model[j] >= 32 /\ response.model[j] <= 126)
              => CleanString(StringIn(identity.model))
        /\ (\A j \in 1..16 : response.serial[j] >= 32 /\ response.serial[j] <= 126)
              => CleanString(StringIn(identity.serial))
        /\ (\A j \in 1..8 : response.firmware[j] >= 32 /\ response.firmware[j] <= 126)
              => CleanString(StringIn(identity.firmware))

\* C26: the overall_status the tool prints for a disk is passed or failed, and
\* a disk whose verdict is passed is read back as passed and counted healthy
\* by the aggregator.
C26_StatusReadBack ==
    pc = "js_done" =>
        /\ json_status \in {"passed", "failed"}
        /\ record.overall_status = "PASSED" =>
              report.overall_status = "PASSED" /\ report.healthy_disks = 1

\* the document the file holds
DocumentOf(text) == CHOOSE d \in ConfigDocuments : ConfigText(d, "text") = text

\* C27: unknown keys are ignored: the configuration loaded from a document
\* equals the one loaded from the same document with the unknown keys and
\* their values taken out, wherever they stand.
C27_UnknownKeysIgnored ==
    pc = "cf_done" => loaded = config_load(ConfigText(DocumentOf(buffer), "kept"))

\* what does hold: an unknown key of the top-level object whose value is a
\* string or a number, and an unknown key inside an attribute's object, are
\* skipped with their values
C27_UnknownScalarKeysIgnored ==
    pc = "cf_done"
      /\ (\A j \in 1..Len(buffer) :
             buffer[j].kind = "string" => buffer[j].str \notin {"extra", "warning"})
      => loaded = config_load(ConfigText(DocumentOf(buffer), "kept"))

\* a document with all three known keys is loaded whole
C27_LoadedWhole ==
    /\ pc = "cf_done"
    /\ loaded.ret = 0
    /\ loaded.has_temp_critical = 1 /\ loaded.temp_critical = 50
    /\ loaded.attributes = <<[id |-> 5, has_raw_critical |-> 1, raw_critical |-> 10]>>

\* the places main returns from once the wakeup has started
AfterWakeupSites == {"wakeup", "single", "sweep", "end"}

\* C29: when main returns, without a signal, from a place after the first
\* wakeup frame may have been written (failed wakeup, failed single-disk
\* query, failed sweep, normal end), jm_cleanup_device has been called and the
\* last WRITE the run sent to the mailbox sector is the zero sector.
C29_CleanupBeforeReturn ==
    exitHow = "return" /\ sigSeen = 0 /\ exitAt \in AfterWakeupSites =>
        /\ cleanupCalls >= 1
        /\ nZeroMain = 1
        /\ lastWrite = "zero"
        /\ sector \in lbas

\* main returned 3 after a wakeup frame that failed, the zero sector written
C29_Witness ==
    /\ exitHow = "return" /\ sigSeen = 0
    /\ exitAt = "wakeup" /\ exitCode = 3
    /\ cleanupCalls = 1
    /\ lastWrite = "zero"

============================================================================
